---- MODULE Spec2Model ----
(***************************************************************************)
(* A model of the minivpn protocol engine.                                 *)
(*                                                                         *)
(* The module holds four state machines over one set of variables:         *)
(*   SpecMgr  the session Manager (internal/session/manager.go) called     *)
(*            by concurrent tasks;                                         *)
(*   SpecTLS  the control-channel reader TLSConn.Read (vpn transport);     *)
(*   SpecMux  the muxer's handshake bring-up, muxer.Reset (vpn/muxer.go);  *)
(*   SpecDC   the data-channel workers (datachannel service).              *)
(* Each specification leaves the variables of the others untouched.        *)
(***************************************************************************)
EXTENDS Integers, Sequences, FiniteSets, TLC

(***************************************************************************)
(* Bounds of the model.                                                    *)
(***************************************************************************)
\* number of tasks that call the Manager concurrently
NumTasks == 2
\* number of Manager calls started in one run
MaxCalls == 4
\* how far below math.MaxUint32 a long-running Manager's counters start
AgedGap == 2
\* number of distinct remote session ids the peer may present
NumSessionIDs == 2
\* highest control packet id the peer sends to TLSConn
MaxPacketID == 3
\* number of packets the carrier hands to TLSConn in one run
MaxArrivals == 5
\* capacity of the session's ackQueue channel
AckQueueCap == 3
\* hard-reset send attempts of one handshake
MaxResetAttempts == 3
\* events of the network during one handshake (deliveries, losses, timeouts)
MaxNetEvents == 4
\* packets muxer.Read takes from the carrier in one run
MaxMuxReads == 3
\* reads of the TLS connection made by InitDataWithRemoteKey in one run
MaxTLSReads == 3
\* capacity of a buffered event listener
EventCap == 1
\* control packets TLSConn.Write sends in one run
MaxWrites == 2
\* retransmission timeouts that pass in one run
MaxTimeouts == 2
\* payloads the TUN side writes in one run
MaxTunWrites == 4
\* data packets the muxer hands to the data channel in one run
MaxInbound == 2
\* keys the TLS layer posts on KeyReady in one run
MaxKeys == 1
\* capacity of the channels between the data channel and its neighbours
ChanCap == 2
\* bytes of payload in one inbound control packet
PayloadLen == 2
\* largest buffer a caller passes to TLSConn.Read
MaxReadLen == 2
\* calls of closeOnceConn.Close
MaxCloseCalls == 4
\* packets framed onto one stream
MaxFrames == 2
\* bytes a stream can lose at its end
MaxCut == 3
\* length of a long packet on the stream
LongPayloadLen == 256
\* bytes in a short input of the padding functions
MaxPadInputLen == 3
\* bytes in a short option string or encoded option
MaxOptLen == 4
\* the longest b passed to muxer.Read
MaxMuxReadLen == 2
\* the longest plaintext of a data packet
MaxPlaintextLen == 2
\* pieces in a remote options string
MaxRemoteOptLen == 4
\* bytes in a packet read by readPacket
MaxDatagramLen == 2
\* bytes in a secret to split
MaxSecretLen == 4
\* the size of the buffer of readPacketFromUDP
enough == 131072
\* aes.BlockSize, the size of GCM's nonce and of its tag
AESBlockSize == 16
GCMNonceSize == 12
GCMTagSize == 16

(***************************************************************************)
(* Program constants.                                                      *)
(***************************************************************************)
\* model.PacketID is a uint32.  It is kept as two 16-bit limbs, value
\* hi * 2^16 + lo, so that the full width is modelled.
Limb == 2^16
U32(hi, lo) == [hi |-> hi, lo |-> lo]
U32Zero == U32(0, 0)
U32One == U32(0, 1)
\* math.MaxUint32
MaxUint32 == U32(Limb - 1, Limb - 1)

\* math.MaxUint16
MaxUint16 == Limb - 1
\* x + 1 in uint32 arithmetic
U32Inc(x) ==
    IF x.lo = Limb - 1
    THEN U32((x.hi + 1) % Limb, 0)
    ELSE U32(x.hi, x.lo + 1)
\* x + n in uint32 arithmetic, for a small n
RECURSIVE U32Add(_, _)
U32Add(x, n) == IF n = 0 THEN x ELSE U32Add(U32Inc(x), n - 1)
\* x < y
U32Less(x, y) == x.hi < y.hi \/ (x.hi = y.hi /\ x.lo < y.lo)
\* a counter that is AgedGap below math.MaxUint32
U32Aged == U32(Limb - 1, Limb - 1 - AgedGap)

\* model.NegotiationState, as enumerated by SessionNegotiationState
S_ERROR == -1
S_UNDEF == 0
S_INITIAL == 1
S_PRE_START == 2
S_START == 3
S_SENT_KEY == 4
S_GOT_KEY == 5
S_ACTIVE == 6
S_GENERATED_KEYS == 7

NegotiationStates == S_ERROR .. S_GENERATED_KEYS

Tasks == 1 .. NumTasks
SessionIDs == 1 .. NumSessionIDs

\* the opcodes a caller passes to Manager.NewPacket
Opcodes == {"P_CONTROL_HARD_RESET_CLIENT_V2", "P_CONTROL_V1", "P_ACK_V1", "P_DATA_V1"}

\* model.Opcode.IsControl
IsControl(opcode) == opcode \in {"P_CONTROL_HARD_RESET_CLIENT_V2",
                                 "P_CONTROL_HARD_RESET_SERVER_V2",
                                 "P_CONTROL_V1"}

\* optional.Value[model.SessionID]
None == <<>>
Some(v) == <<v>>
IsNone(o) == o = <<>>
Unwrap(o) == o[1]

VARIABLES
    \* ---- session.Manager ----
    mu,                     \* Manager.mu: 0 when free, else the task holding it
    localControlPacketID,   \* Manager.localControlPacketID
    localDataPacketID,      \* Manager.localDataPacketID
    negState,               \* Manager.negState
    remoteSessionID,        \* Manager.remoteSessionID (optional)
    mpc,                    \* per task: position inside the Manager method
    mop,                    \* per task: the call in progress
    mres,                   \* per task: result of the last packet-id request
    ncalls,                 \* calls started so far
    ctrlIssued,             \* control packet ids handed out, in order
    dataIssued,             \* data packet ids handed out, in order
    hardResets,             \* the packets NewHardResetPacket returned: the id of
                            \* each and how many control ids were out before it
    pidBase,                \* the counters' values when the run started
    panicked,               \* a runtimex.Assert failed
    \* ---- TLSConn and the session it reads for ----
    lastACK,                \* session: id of the last packet acknowledged
    ackQueue,               \* session.ackQueue: packets waiting for their turn
    bufReader,              \* TLSConn.bufReader
    tpc,                    \* position inside TLSConn.Read
    tb,                     \* len(b) of the Read in progress
    tret,                   \* what the last Read returned
    delivered,              \* bytes handed to the callers of Read, in order
    acksSent,               \* ids acknowledged to the peer, in order
    narrivals,              \* packets read from the carrier so far
    staleSeen,              \* control packets read whose id was already delivered
    staleAcked,             \* of those, how many were acknowledged again
    aheadSeen,              \* control packets read ahead of their turn
    \* ---- muxer: Handshake, handshake, Reset ----
    hpc,                    \* position of the goroutine running muxer.handshake
    failed,                 \* muxer.failed
    RemoteSessionID,        \* reliable.session.RemoteSessionID (0: the zero value)
    hsRet,                  \* what muxer.Handshake returned
    inflight,               \* hard-reset copies on their way to the server
    inbound,                \* packets waiting in the carrier for readPacket
    hardResetSends,         \* hard resets written to the carrier
    resetAttempts,          \* calls of control.SendHardReset
    resetReadFailures,      \* readPacket errors (timeouts) seen by Reset
    resetACKs,              \* acknowledgments of the server's hard reset sent
    netEvents,              \* network events so far
    ctxDone,                \* the context passed to Handshake is done
    hsErr,                  \* what muxer.handshake returned ("none": running)
    pushErr,                \* what the last readPushReply returned
    tlsReads,               \* reads of the TLS connection so far
    eventListener,          \* muxer.eventListener: "nil", "unbuffered", "buffered"
    eventQueue,             \* the events held by a buffered listener
    receiverReady,          \* a task is waiting to receive from the listener
    eventsSent,             \* events emit delivered to the listener
    eventsDropped,          \* events emit did not deliver
    eventsEmitted,          \* the stages passed to emit, in order
    \* ---- muxer.Read ----
    rdPc,                   \* position inside muxer.Read
    rdRet,                  \* what the last muxer.Read returned
    rdBuf,                  \* muxer.bufReader
    rdB,                    \* len(b) of the Read in progress
    rdSeen,                 \* the packets read from the carrier, in order
    rdDelivered,            \* plaintexts handed to the callers of Read
    pingReplies,            \* keepalive replies written by handleDataPing
    \* ---- tlsTransport.WritePacket ----
    localPacketID,          \* session.localPacketID: next outbound control id
    txWrites,               \* per outbound control id: times it was written
    txTimeouts,             \* per outbound control id: retransmission timeouts
                            \* that passed without an acknowledgment
    \* ---- datachannel workers ----
    shutdown,               \* workersManager: shutdown was started
    workersDone,            \* workers that called OnWorkerDone
    downPc,                 \* position of moveDownWorker
    upPc,                   \* position of moveUpWorker
    keyPc,                  \* position of keyWorker
    keyInstalled,           \* dataChannel.setupKeys succeeded
    tunToData,              \* channel TUNToData
    dataOrControlToMuxer,   \* channel DataOrControlToMuxer
    muxerToData,            \* channel MuxerToData
    dataToTUN,              \* channel DataToTUN
    keyReady,               \* channel KeyReady
    downData,               \* moveDownWorker: the payload or packet in hand
    upData,                 \* moveUpWorker: the plaintext in hand
    downErr,                \* moveDownWorker: last error of writePacket
    dropped,                \* encrypted packets dropped on a full queue
    tunWrites,              \* payloads written by TUN so far
    inboundPkts,            \* data packets handed up by the muxer so far
    keysPosted,             \* keys posted so far
    \* ---- networkio.closeOnceConn ----
    onceDone,               \* closeOnceConn.once: the done flag of sync.Once
    onceM,                  \* closeOnceConn.once: 0 when the mutex of
                            \* sync.Once is free, else the task holding it
    cpc,                    \* per task: position inside Close
    cerr,                   \* per task: the named result err of Close
    cran,                   \* per task: whether this call ran the function
    connCloses,             \* calls of the underlying Conn.Close so far
    closeRets,              \* the calls of Close that returned, in order
    closeCalls,             \* calls of Close started so far
    \* ---- readPacketFromTCP ----
    tcpConn,                \* bytes the stream conn has not yet given
    tcpWritten,             \* the packets framed onto the stream, in order
    tcpCut,                 \* bytes the stream lost at its end
    tcpGot,                 \* the packets readPacketFromTCP returned
    tcpErr,                 \* the error of the last readPacketFromTCP
    \* ---- dataCipherAES ----
    ciCipher,               \* the dataCipherAES: its ksb and mode
    ciArgs,                 \* key, iv, plaintext and ad given to encrypt
    ciPc,                   \* "start", "encrypted", "decrypted", "received"
    ciEnc,                  \* what encrypt returned
    ciDec,                  \* what decrypt returned
    \* ---- PKCS#7 padding ----
    padB,                   \* the byte string given to the call
    padBs,                  \* the block size given to the call
    padPc,                  \* "start", "padded", "unpadded", "stripped"
    padRet,                 \* what cipherPadTextPKCS7 returned
    unpadRet,               \* what cipherUnpadTextPKCS7 returned
    \* ---- option strings ----
    optIn,                  \* the option string, or the bytes to decode
    optPc,                  \* "start", "encoded", "decoded", "parsed"
    optEnc,                 \* what encodeOptionStringToBytes returned
    optDec,                 \* what decodeOptionStringFromBytes returned
    \* ---- newDataCipherFromCipherSuite ----
    suiteParts,             \* the pieces the suite string is made of
    suiteName,              \* the cipher suite string c
    suitePc,                \* "start", "called"
    suiteRet,               \* the dataCipher and the error returned
    \* ---- Manager.InitTunnelInfo, Manager.UpdateTunnelInfo ----
    tunnelInfo,             \* Manager.tunnelInfo
    tiIn,                   \* the remote options InitTunnelInfo is called with
    tiPc,                   \* "idle", "called"
    tiErr,                  \* what the last InitTunnelInfo returned
    tuPc,                   \* UpdateTunnelInfo: "idle", "locked"
    \* ---- readPacket ----
    rpNetwork,              \* conn.LocalAddr().Network()
    rpConn,                 \* the bytes the conn holds for the next read
    rpPc,                   \* "start", "called"
    rpRet,                  \* the packet and the error returned
    \* ---- splitPreMasterSecret ----
    pmsSecret,              \* the secret
    pmsPc,                  \* "start", "called"
    pmsS1,                  \* the first half returned
    pmsS2                   \* the second half returned

\* the Manager but its mutex
mgrVarsButMu == <<localControlPacketID, localDataPacketID, negState,
                  remoteSessionID, mpc, mop, mres, ncalls, ctrlIssued,
                  dataIssued, hardResets, pidBase, panicked>>

mgrVars == <<mu, mgrVarsButMu>>

tlsVars == <<lastACK, ackQueue, bufReader, tpc, tb, tret, delivered, acksSent,
             narrivals, staleSeen, staleAcked, aheadSeen>>

hsVars == <<ctxDone, hsErr, pushErr, tlsReads>>

evVars == <<eventListener, eventQueue, receiverReady, eventsSent, eventsDropped,
           eventsEmitted>>

muxVars == <<hpc, failed, RemoteSessionID, hsRet, inflight, inbound,
             hardResetSends, resetAttempts, resetReadFailures, resetACKs,
             netEvents, hsVars, evVars>>

rdVars == <<rdPc, rdRet, rdBuf, rdB, rdSeen, rdDelivered, pingReplies>>

txVars == <<localPacketID, txWrites, txTimeouts>>

dcVars == <<shutdown, workersDone, downPc, upPc, keyPc, keyInstalled, tunToData,
            dataOrControlToMuxer, muxerToData, dataToTUN, keyReady, downData,
            upData, downErr, dropped, tunWrites, inboundPkts, keysPosted>>

closeVars == <<onceDone, onceM, cpc, cerr, cran, connCloses, closeRets,
               closeCalls>>

tcpVars == <<tcpConn, tcpWritten, tcpCut, tcpGot, tcpErr>>

cipherVars == <<ciCipher, ciArgs, ciPc, ciEnc, ciDec>>

padVars == <<padB, padBs, padPc, padRet, unpadRet>>

optVars == <<optIn, optPc, optEnc, optDec>>

suiteVars == <<suiteParts, suiteName, suitePc, suiteRet>>

tunVars == <<tunnelInfo, tiIn, tiPc, tiErr, tuPc>>

netVars == <<rpNetwork, rpConn, rpPc, rpRet>>

pmsVars == <<pmsSecret, pmsPc, pmsS1, pmsS2>>

\* the session, its layers and its workers
sessionVars == <<mgrVars, tlsVars, muxVars, rdVars, txVars, dcVars>>

\* the helpers that live beside the session
auxVars == <<closeVars, tcpVars, cipherVars, padVars, optVars, suiteVars,
             tunVars, netVars, pmsVars>>

vars == <<mgrVars, tlsVars, muxVars, rdVars, txVars, dcVars, auxVars>>

\* what the Manager's methods leave alone
NotMgr == <<tlsVars, muxVars, rdVars, txVars, dcVars, auxVars>>
\* what TLSConn.Read leaves alone
NotTLS == <<mgrVars, muxVars, rdVars, txVars, dcVars, auxVars>>
\* what the muxer's handshake leaves alone
NotMux == <<mgrVars, tlsVars, rdVars, txVars, dcVars, auxVars>>
\* what tlsTransport.WritePacket leaves alone
NotTx == <<mgrVars, tlsVars, muxVars, rdVars, dcVars, auxVars>>
\* the Manager fields the data channel does not touch
MgrRestDC == <<localControlPacketID, remoteSessionID, mpc, mop, mres, ncalls,
               ctrlIssued, hardResets, pidBase, panicked>>
\* what the data-channel workers leave alone
NotDC == <<MgrRestDC, tlsVars, muxVars, rdVars, txVars, auxVars>>
\* what muxer.Read leaves alone
NotRd == <<mgrVars, tlsVars, muxVars, txVars, dcVars, auxVars>>
\* what closeOnceConn.Close leaves alone
NotClose == <<sessionVars, tcpVars, cipherVars, padVars, optVars, suiteVars,
              tunVars, netVars, pmsVars>>
\* what readPacketFromTCP leaves alone
NotTCP == <<sessionVars, closeVars, cipherVars, padVars, optVars, suiteVars,
            tunVars, netVars, pmsVars>>
\* what dataCipherAES leaves alone
NotCipher == <<sessionVars, closeVars, tcpVars, padVars, optVars, suiteVars,
               tunVars, netVars, pmsVars>>
\* what the padding functions leave alone
NotPad == <<sessionVars, closeVars, tcpVars, cipherVars, optVars, suiteVars,
            tunVars, netVars, pmsVars>>
\* what the option-string functions leave alone
NotOpt == <<sessionVars, closeVars, tcpVars, cipherVars, padVars, suiteVars,
            tunVars, netVars, pmsVars>>
\* what newDataCipherFromCipherSuite leaves alone
NotSuite == <<sessionVars, closeVars, tcpVars, cipherVars, padVars, optVars,
              tunVars, netVars, pmsVars>>

\* what InitTunnelInfo and UpdateTunnelInfo leave alone but the mutex
NotTunButMu == <<mgrVarsButMu, tlsVars, muxVars, rdVars, txVars, dcVars,
                 closeVars, tcpVars, cipherVars, padVars, optVars, suiteVars,
                 netVars, pmsVars>>
\* what a step of their callers outside the mutex leaves alone
NotTun == <<mu, NotTunButMu>>
\* what readPacket leaves alone
NotNet == <<sessionVars, closeVars, tcpVars, cipherVars, padVars, optVars,
            suiteVars, tunVars, pmsVars>>
\* what splitPreMasterSecret leaves alone
NotPms == <<sessionVars, closeVars, tcpVars, cipherVars, padVars, optVars,
            suiteVars, tunVars, netVars>>

NoOp == [kind |-> "none", arg |-> 0]
NoRes == [pid |-> U32Zero, err |-> "none", seen |-> U32Zero]


(***************************************************************************)
(* TLSConn: reads over the control channel.                                *)
(***************************************************************************)
\* the payload of the control packet with the given id: bytes tagged with
\* the id and their position
PayloadOf(id) == [k \in 1 .. PayloadLen |-> <<id, k>>]

\* a control packet as parsePacketFromBytes returns it
ControlPacket(id) == [id |-> id, opcode |-> "P_CONTROL_V1", payload |-> PayloadOf(id)]
\* &packet{}: what tlsTransport.ReadPacket returns for an inbound ACK
EmptyPacket == [id |-> 0, opcode |-> "none", payload |-> <<>>]

\* what one tlsTransport.ReadPacket call can return
CarrierInputs ==
    [kind : {"packet"}, id : 0 .. MaxPacketID]
        \cup [kind : {"ack", "parseError", "ioError"}, id : {0}]

NoRet == [n |-> 0, err |-> "none"]

\* the session as muxer.Reset leaves it: packet 0 (the hard-reset reply)
\* has been acknowledged
TLSInit ==
    /\ lastACK = 0
    /\ ackQueue = <<>>
    /\ bufReader = <<>>
    /\ tpc = "idle"
    /\ tb = 0
    /\ tret = NoRet
    /\ delivered = <<>>
    /\ acksSent = <<>>
    /\ narrivals = 0
    /\ staleSeen = 0
    /\ staleAcked = 0
    /\ aheadSeen = 0

\* session.isNextPacket: the id follows the last acknowledged one (the ids
\* of this machine stay far below the uint32 wrap)
isNextPacket(p) == p.id - lastACK = 1

\* a canRead that takes any packet at all
canRead_AnyPacket(p) == TRUE

\* TLSConn.canRead (p is never nil where the model calls it)
canRead(p) == isNextPacket(p)

\* the n bytes bytes.Buffer.Read copies out of a buffer holding buf
ReadLen(buf, blen) == IF Len(buf) < blen THEN Len(buf) ELSE blen

\* whether the stale packet p, just read from the carrier, is one whose
\* payload was already handed up
IsStale(p) == p.opcode = "P_CONTROL_V1" /\ 1 <= p.id /\ p.id <= lastACK

\* whether p, just read from the carrier, arrived before its turn
IsAhead(p) == p.opcode = "P_CONTROL_V1" /\ p.id > lastACK + 1

\* TLSConn.Read is called with a buffer of blen bytes
TLSRead(blen) ==
    /\ tpc = "idle"
    /\ tpc' = "loop"
    /\ tb' = blen
    /\ tret' = NoRet
    /\ UNCHANGED <<lastACK, ackQueue, bufReader, delivered, acksSent, narrivals,
                   staleSeen, staleAcked, aheadSeen, NotTLS>>

\* the payload handed up with no ACK sent (not the code's behaviour)
AckAndDeliver_NoAck(p, queue) ==
    LET buf == bufReader \o p.payload
        n == ReadLen(buf, tb)
    IN /\ acksSent' = acksSent
       /\ lastACK' = p.id
       /\ delivered' = delivered \o SubSeq(buf, 1, n)
       /\ bufReader' = SubSeq(buf, n + 1, Len(buf))
       /\ tret' = [n |-> n, err |-> IF Len(buf) = 0 THEN "EOF" ELSE "nil"]
       /\ ackQueue' = queue
       /\ tpc' = "idle"

\* sendACKFn succeeded, then writeAndReadFromBufferFn: the payload goes into
\* bufReader and Read returns what bufReader.Read copies into b
AckAndDeliver(p, queue) ==
    LET buf == bufReader \o p.payload
        n == ReadLen(buf, tb)
    IN /\ acksSent' = Append(acksSent, p.id)
       /\ lastACK' = p.id
       /\ delivered' = delivered \o SubSeq(buf, 1, n)
       /\ bufReader' = SubSeq(buf, n + 1, Len(buf))
       /\ tret' = [n |-> n, err |-> IF Len(buf) = 0 THEN "EOF" ELSE "nil"]
       /\ ackQueue' = queue
       /\ tpc' = "idle"

\* sendACKFn failed: Read returns the error
AckFailed(queue) ==
    /\ tret' = [n |-> 0, err |-> "ackError"]
    /\ ackQueue' = queue
    /\ tpc' = "idle"
    /\ UNCHANGED <<lastACK, bufReader, delivered, acksSent>>

\* doReadFromQueue: takes the packet at the head of ackQueue; delivers it
\* when it is the next one, else puts it back and goes on to doReadFromConn
doReadFromQueue ==
    /\ tpc = "loop"
    /\ Len(ackQueue) > 0
    /\ LET p == Head(ackQueue)
           rest == Tail(ackQueue)
       IN IF canRead(p)
          THEN \E ackOK \in BOOLEAN :
                  IF ackOK THEN AckAndDeliver(p, rest) ELSE AckFailed(rest)
          ELSE /\ ackQueue' = Append(rest, p)
               /\ tpc' = "conn"
               /\ UNCHANGED <<lastACK, bufReader, delivered, acksSent, tret>>
    /\ UNCHANGED <<tb, narrivals, staleSeen, staleAcked, aheadSeen, NotTLS>>

\* doReadFromConn: one tlsTransport.ReadPacket, then deliver or queue
doReadFromConn(in) ==
    /\ \/ tpc = "conn"
       \/ tpc = "loop" /\ Len(ackQueue) = 0
    /\ narrivals < MaxArrivals
    /\ narrivals' = narrivals + 1
    /\ IF in.kind \in {"parseError", "ioError"}
       THEN /\ tret' = [n |-> 0, err |-> in.kind]
            /\ tpc' = "idle"
            /\ UNCHANGED <<lastACK, ackQueue, bufReader, delivered, acksSent,
                           staleSeen, staleAcked, aheadSeen>>
       ELSE LET p == IF in.kind = "ack" THEN EmptyPacket ELSE ControlPacket(in.id)
            IN /\ staleSeen' = IF IsStale(p) THEN staleSeen + 1 ELSE staleSeen
               /\ aheadSeen' = IF IsAhead(p) THEN aheadSeen + 1 ELSE aheadSeen
               /\ IF canRead(p)
                  THEN /\ \E ackOK \in BOOLEAN :
                            IF ackOK THEN AckAndDeliver(p, ackQueue)
                                     ELSE AckFailed(ackQueue)
                       /\ staleAcked' = IF IsStale(p) /\ acksSent' # acksSent
                                        THEN staleAcked + 1 ELSE staleAcked
                  ELSE /\ IF Len(ackQueue) < AckQueueCap
                          THEN /\ ackQueue' = Append(ackQueue, p)
                               /\ tpc' = "loop"
                          ELSE /\ tpc' = "blocked"
                               /\ UNCHANGED ackQueue
                       /\ UNCHANGED <<lastACK, bufReader, delivered, acksSent,
                                      tret, staleAcked>>
    /\ UNCHANGED <<tb, NotTLS>>

TLSNext ==
    \/ \E blen \in 1 .. MaxReadLen : TLSRead(blen)
    \/ doReadFromQueue
    \/ \E in \in CarrierInputs : doReadFromConn(in)

(***************************************************************************)
(* muxer: Handshake, handshake and Reset.                                  *)
(***************************************************************************)
MuxInit ==
    /\ hpc = "start"
    /\ failed = FALSE
    /\ RemoteSessionID = 0
    /\ hsRet = "none"
    /\ inflight = 0
    /\ inbound = <<>>
    /\ hardResetSends = 0
    /\ resetAttempts = 0
    /\ resetReadFailures = 0
    /\ resetACKs = 0
    /\ netEvents = 0
    /\ ctxDone = FALSE
    /\ hsErr = "none"
    /\ pushErr = "none"
    /\ tlsReads = 0
    /\ eventListener = "nil"
    /\ eventQueue = <<>>
    /\ receiverReady = FALSE
    /\ eventsSent = 0
    /\ eventsDropped = 0
    /\ eventsEmitted = <<>>

\* what the carrier can hold for the client: the server's hard reset with
\* its session id, 26 bytes that are no server hard reset, or a packet of
\* another length
InboundPackets ==
    [kind : {"hardReset"}, sid : SessionIDs]
        \cup [kind : {"unparsable26", "otherLength"}, sid : {0}]

\* control.ParseHardReset: the server's session id, or the zero value and
\* an error
ParseHardReset(pkt) ==
    IF pkt.kind = "hardReset"
    THEN [sid |-> pkt.sid, err |-> "nil"]
    ELSE [sid |-> 0, err |-> "errBadReset"]

\* the state of Reset and of the carrier under it
resetVars == <<RemoteSessionID, inflight, inbound, hardResetSends,
               resetAttempts, resetReadFailures, resetACKs, netEvents>>

\* muxer.SetEventListener: m.eventListener = el, at any time and any number
\* of times. A channel that was not the listener before starts empty, with
\* no receiver waiting on it.
\* The assignment is not synchronised with the emits of the handshake
\* goroutine: an emit sees it at once or only later, which is the same as
\* this step being taken later.
SetEventListener(el) ==
    /\ eventListener' = el
    /\ \/ /\ el = eventListener
          /\ UNCHANGED <<eventQueue, receiverReady>>
       \/ /\ eventQueue' = <<>>
          /\ receiverReady' = FALSE
    /\ UNCHANGED <<hpc, failed, hsRet, resetVars, hsVars, eventsSent,
                   eventsDropped, eventsEmitted, NotMux>>

\* the task at the other end of the listener receives an event, or waits
\* for one
ListenerReceives ==
    /\ eventListener # "nil"
    /\ IF eventQueue # <<>>
       THEN /\ eventQueue' = Tail(eventQueue)
            /\ UNCHANGED receiverReady
       ELSE /\ ~receiverReady
            /\ receiverReady' = TRUE
            /\ UNCHANGED eventQueue
    /\ UNCHANGED <<hpc, failed, hsRet, resetVars, hsVars, eventListener,
                   eventsSent, eventsDropped, eventsEmitted, NotMux>>

\* a send on the listener can proceed: a receiver is waiting or the buffer
\* has room; a send on a nil channel never can
CanSendEvent ==
    /\ eventListener # "nil"
    /\ \/ receiverReady
       \/ eventListener = "buffered" /\ Len(eventQueue) < EventCap

\* the send of emit's select
SendEvent(stage) ==
    /\ eventsSent' = eventsSent + 1
    /\ IF receiverReady
       THEN /\ receiverReady' = FALSE
            /\ UNCHANGED eventQueue
       ELSE /\ eventQueue' = Append(eventQueue, stage)
            /\ UNCHANGED receiverReady
    /\ UNCHANGED <<eventListener, eventsDropped>>

\* emit as a plain send: m.eventListener <- stage
emit_Blocking(stage) ==
    /\ CanSendEvent
    /\ SendEvent(stage)
    /\ eventsEmitted' = Append(eventsEmitted, stage)

\* muxer.emit: select { case m.eventListener <- stage: default: }
emit(stage) ==
    /\ eventsEmitted' = Append(eventsEmitted, stage)
    /\ IF CanSendEvent
       THEN SendEvent(stage)
       ELSE /\ eventsDropped' = eventsDropped + 1
            /\ UNCHANGED <<eventListener, eventQueue, receiverReady,
                           eventsSent>>

\* muxer.Handshake: go func() { errch <- m.handshake() }(); the caller goes
\* on to its select while the goroutine waits to be scheduled
HandshakeGo ==
    /\ hpc = "start"
    /\ hpc' = "spawned"
    /\ UNCHANGED <<failed, hsRet, resetVars, hsVars, evVars, NotMux>>

\* muxer.handshake, first statement: m.emit(EventReset)
HandshakeStart ==
    /\ hpc = "spawned"
    /\ hpc' = "resetSend"
    /\ emit("EventReset")
    /\ UNCHANGED <<failed, hsRet, resetVars, hsVars, NotMux>>

\* the context passed to Handshake expires or is cancelled, before the
\* call or during it
CtxExpires ==
    /\ ~ctxDone
    /\ ctxDone' = TRUE
    /\ UNCHANGED <<hpc, failed, hsRet, resetVars, hsErr, pushErr, tlsReads,
                   evVars, NotMux>>

\* muxer.Handshake without the assignment to m.failed
HandshakeCtxDone_NoFailed ==
    /\ hsRet = "none"
    /\ hpc # "start"
    /\ ctxDone
    /\ hsRet' = "ctxErr"
    /\ UNCHANGED <<hpc, failed, resetVars, hsVars, evVars, NotMux>>

\* muxer.Handshake: case <-ctx.Done(): err = ctx.Err(); m.failed = true
HandshakeCtxDone ==
    /\ hsRet = "none"
    /\ hpc # "start"
    /\ ctxDone
    /\ hsRet' = "ctxErr"
    /\ failed' = TRUE
    /\ UNCHANGED <<hpc, resetVars, hsVars, evVars, NotMux>>

\* muxer.Handshake: case err = <-errch: what muxer.handshake returned
HandshakeErrch ==
    /\ hsRet = "none"
    /\ hsErr # "none"
    /\ hsRet' = hsErr
    /\ UNCHANGED <<hpc, failed, resetVars, hsVars, evVars, NotMux>>

\* the positions of muxer.handshake at which the reliable transport runs
ReliablePositions ==
    {"tlsHandshake", "sendControlMessage", "readRemoteKey", "setupKeys",
     "sendPushRequest", "readPushReply", "doneHandshake"}

\* muxer.Handshake: case err = <-m.reliable.errChan
HandshakeReliableErr ==
    /\ hsRet = "none"
    /\ hpc \in ReliablePositions
    /\ hsRet' = "reliableErr"
    /\ UNCHANGED <<hpc, failed, resetVars, hsVars, evVars, NotMux>>

\* muxer.handshake returns err, which goes to errch
handshakeReturns(err) ==
    /\ hpc' = "returned"
    /\ hsErr' = err

\* handshake, step 2: hasAuthInfo, newCertConfigFromOptions, initTLSFn, then
\* m.emit(EventTLSHandshake)
HandshakeInitTLS ==
    /\ hpc = "tls"
    /\ \E res \in {"nil", "errBadInput", "ErrBadTLSInit"} :
          IF res = "nil"
          THEN /\ hpc' = "tlsHandshake"
               /\ emit("EventTLSHandshake")
               /\ UNCHANGED hsErr
          ELSE /\ handshakeReturns(res)
               /\ UNCHANGED evVars
    /\ UNCHANGED <<failed, hsRet, resetVars, ctxDone, pushErr, tlsReads, NotMux>>

\* handshake with m.emit(EventTLSHandshakeDone) placed before the test of
\* tlsHandshakeFn's error
HandshakeTLSHandshake_EmitFirst ==
    /\ hpc = "tlsHandshake"
    /\ emit("EventTLSHandshakeDone")
    /\ \E res \in {"nil", "ErrBadTLSHandshake"} :
          IF res = "nil"
          THEN /\ hpc' = "sendControlMessage"
               /\ UNCHANGED hsErr
          ELSE handshakeReturns(res)
    /\ UNCHANGED <<failed, hsRet, resetVars, ctxDone, pushErr, tlsReads, NotMux>>

\* handshake that keeps the error of tlsHandshakeFn and goes on to
\* InitDataWithRemoteKey
HandshakeTLSHandshake_GoesOn ==
    /\ hpc = "tlsHandshake"
    /\ \E res \in {"nil", "ErrBadTLSHandshake"} :
          /\ hpc' = "sendControlMessage"
          /\ emit("EventTLSHandshakeDone")
          /\ IF res = "nil" THEN UNCHANGED hsErr ELSE hsErr' = res
    /\ UNCHANGED <<failed, hsRet, resetVars, ctxDone, pushErr, tlsReads, NotMux>>

\* handshake: tlsHandshakeFn(m.reliable, tlsConf), then
\* m.emit(EventTLSHandshakeDone)
HandshakeTLSHandshake ==
    /\ hpc = "tlsHandshake"
    /\ \E res \in {"nil", "ErrBadTLSHandshake"} :
          IF res = "nil"
          THEN /\ hpc' = "sendControlMessage"
               /\ emit("EventTLSHandshakeDone")
               /\ UNCHANGED hsErr
          ELSE /\ handshakeReturns(res)
               /\ UNCHANGED evVars
    /\ UNCHANGED <<failed, hsRet, resetVars, ctxDone, pushErr, tlsReads, NotMux>>

\* InitDataWithRemoteKey, step 1: sendControlMessage; its error is returned
\* and handshake wraps it in ErrBadDataHandshake
SendControlMessage ==
    /\ hpc = "sendControlMessage"
    /\ \E ok \in BOOLEAN :
          IF ok
          THEN hpc' = "readRemoteKey" /\ UNCHANGED hsErr
          ELSE handshakeReturns("ErrBadDataHandshake")
    /\ UNCHANGED <<failed, hsRet, resetVars, ctxDone, pushErr, tlsReads,
                   evVars, NotMux>>

\* InitDataWithRemoteKey, step 2: for { readAndLoadRemoteKey } until it
\* returns nil
ReadAndLoadRemoteKey ==
    /\ hpc = "readRemoteKey"
    /\ tlsReads < MaxTLSReads
    /\ tlsReads' = tlsReads + 1
    /\ \E ok \in BOOLEAN :
          hpc' = IF ok THEN "setupKeys" ELSE "readRemoteKey"
    /\ UNCHANGED <<failed, hsRet, resetVars, ctxDone, hsErr, pushErr, evVars,
                   NotMux>>

\* InitDataWithRemoteKey, step 3: ActiveKey and m.data.SetupKeys(key0)
SetupKeys ==
    /\ hpc = "setupKeys"
    /\ \E ok \in BOOLEAN :
          IF ok
          THEN hpc' = "sendPushRequest" /\ UNCHANGED hsErr
          ELSE handshakeReturns("ErrBadDataHandshake")
    /\ UNCHANGED <<failed, hsRet, resetVars, ctxDone, pushErr, tlsReads,
                   evVars, NotMux>>

\* InitDataWithRemoteKey, step 4: sendPushRequest
SendPushRequest ==
    /\ hpc = "sendPushRequest"
    /\ \E ok \in BOOLEAN :
          IF ok
          THEN hpc' = "readPushReply" /\ UNCHANGED hsErr
          ELSE handshakeReturns("ErrBadDataHandshake")
    /\ UNCHANGED <<failed, hsRet, resetVars, ctxDone, pushErr, tlsReads,
                   evVars, NotMux>>

\* what a read of the TLS connection can give readPushReply: a read error,
\* the AUTH_FAILED notification, another message, the push reply
PushReplies == {"readError", "AUTH_FAILED", "other", "PUSH_REPLY"}

\* muxer.readPushReply
readPushReply(resp) ==
    CASE resp = "readError" -> "errRead"
      [] resp = "AUTH_FAILED" -> "errBadAuth"
      [] resp = "other" -> "errBadServerReply"
      [] resp = "PUSH_REPLY" -> "nil"

\* InitDataWithRemoteKey: for { if err := m.readPushReply(tls); err != nil {
\* sleep; continue }; break }; then SetPeerID, and handshake goes on to
\* m.emit(EventDataInitDone)
ReadPushReply ==
    /\ hpc = "readPushReply"
    /\ tlsReads < MaxTLSReads
    /\ tlsReads' = tlsReads + 1
    /\ \E resp \in PushReplies :
          /\ pushErr' = readPushReply(resp)
          /\ IF readPushReply(resp) = "nil"
             THEN /\ hpc' = "doneHandshake"
                  /\ emit("EventDataInitDone")
             ELSE /\ hpc' = "readPushReply"
                  /\ UNCHANGED evVars
    /\ UNCHANGED <<failed, hsRet, resetVars, ctxDone, hsErr, NotMux>>

\* handshake: m.reliable.doneHandshake <- struct{}{} is received by the
\* reliable transport; return nil
HandshakeDone ==
    /\ hpc = "doneHandshake"
    /\ handshakeReturns("nil")
    /\ UNCHANGED <<failed, hsRet, resetVars, ctxDone, pushErr, tlsReads,
                   evVars, NotMux>>

\* Reset: m.control.SendHardReset(conn, r); on an error Reset returns it and
\* the loop of handshake calls Reset again
ResetSendHardReset ==
    /\ hpc = "resetSend"
    /\ resetAttempts < MaxResetAttempts
    /\ resetAttempts' = resetAttempts + 1
    /\ \E ok \in BOOLEAN :
          IF ok
          THEN /\ hardResetSends' = hardResetSends + 1
               /\ inflight' = inflight + 1
               /\ hpc' = "resetRead"
          ELSE /\ hpc' = "resetSend"
               /\ UNCHANGED <<hardResetSends, inflight>>
    /\ UNCHANGED <<failed, RemoteSessionID, hsRet, inbound, resetReadFailures,
                   resetACKs, netEvents, hsVars, evVars, NotMux>>

\* Reset called by the loop of handshake once the counters of the model are
\* at their bound: the hard reset goes out as before, it is not counted any
\* more and the network loses the copy
ResetSendHardResetUncounted ==
    /\ hpc = "resetSend"
    /\ resetAttempts = MaxResetAttempts
    /\ hpc' = "resetRead"
    /\ UNCHANGED <<failed, RemoteSessionID, hsRet, inflight, inbound,
                   hardResetSends, resetAttempts, resetReadFailures, resetACKs,
                   netEvents, hsVars, evVars, NotMux>>

\* Reset, top of the read loop: if m.failed { return errors.New(...) }.
\* m.failed is written by Handshake without synchronisation, so the read
\* may still see false after it was set.
ResetSeesFailed ==
    /\ hpc = "resetRead"
    /\ failed
    /\ hpc' = "resetSend"
    /\ UNCHANGED <<failed, RemoteSessionID, hsRet, inflight, inbound,
                   hardResetSends, resetAttempts, resetReadFailures, resetACKs,
                   netEvents, hsVars, evVars, NotMux>>

\* Reset: readPacket(m.conn) returns an error (the read timed out): continue
ResetReadFails ==
    /\ hpc = "resetRead"
    /\ inbound = <<>>
    /\ netEvents < MaxNetEvents
    /\ netEvents' = netEvents + 1
    /\ resetReadFailures' = resetReadFailures + 1
    /\ UNCHANGED <<hpc, failed, RemoteSessionID, hsRet, inflight, inbound,
                   hardResetSends, resetAttempts, resetACKs, hsVars, evVars,
                   NotMux>>

\* Reset: readPacket(m.conn) returns a packet; one that is not 26 bytes long
\* is skipped, else r.session.RemoteSessionID = what ParseHardReset returned
\* (its error is not looked at) and the loop ends
ResetReadPacket ==
    /\ hpc = "resetRead"
    /\ inbound # <<>>
    /\ inbound' = Tail(inbound)
    /\ IF Head(inbound).kind = "otherLength"
       THEN UNCHANGED <<hpc, RemoteSessionID>>
       ELSE /\ RemoteSessionID' = ParseHardReset(Head(inbound)).sid
            /\ hpc' = "resetACK"
    /\ UNCHANGED <<failed, hsRet, inflight, hardResetSends, resetAttempts,
                   resetReadFailures, resetACKs, netEvents, hsVars, evVars, NotMux>>

\* Reset: return m.control.SendACK(m.conn, r, packetID(0)); on nil the loop
\* of handshake ends and the TLS handshake follows
ResetSendACK ==
    /\ hpc = "resetACK"
    /\ \E ok \in BOOLEAN :
          IF ok
          THEN /\ resetACKs' = resetACKs + 1
               /\ hpc' = "tls"
          ELSE /\ hpc' = "resetSend"
               /\ UNCHANGED resetACKs
    /\ UNCHANGED <<failed, RemoteSessionID, hsRet, inflight, inbound,
                   hardResetSends, resetAttempts, resetReadFailures, netEvents,
                   hsVars, evVars, NotMux>>

\* the network loses a hard-reset copy, or the server gets it and its
\* answer reaches the client's carrier
NetCarry ==
    /\ inflight > 0
    /\ netEvents < MaxNetEvents
    /\ netEvents' = netEvents + 1
    /\ inflight' = inflight - 1
    /\ \/ UNCHANGED inbound
       \/ \E pkt \in InboundPackets : inbound' = Append(inbound, pkt)
    /\ UNCHANGED <<hpc, failed, RemoteSessionID, hsRet, hardResetSends,
                   resetAttempts, resetReadFailures, resetACKs, hsVars,
                   evVars, NotMux>>

\* the steps of Reset and of the carrier under it
ResetNext ==
    \/ ResetSendHardReset
    \/ ResetSeesFailed
    \/ ResetReadFails
    \/ ResetReadPacket
    \/ ResetSendACK
    \/ NetCarry

\* Handshake up to the end of Reset, over a carrier that loses packets
MuxNext ==
    \/ HandshakeGo
    \/ HandshakeStart
    \/ CtxExpires
    \/ HandshakeCtxDone
    \/ ResetNext

\* the whole of Handshake, with an event listener, over a carrier on which
\* no read times out
HandshakeNext ==
    \/ \E el \in {"unbuffered", "buffered"} : SetEventListener(el)
    \/ ListenerReceives
    \/ HandshakeGo
    \/ HandshakeStart
    \/ CtxExpires
    \/ HandshakeCtxDone
    \/ HandshakeErrch
    \/ HandshakeReliableErr
    \/ ResetSendHardReset
    \/ ResetSeesFailed
    \/ ResetReadPacket
    \/ ResetSendACK
    \/ NetCarry
    \/ HandshakeInitTLS
    \/ HandshakeTLSHandshake
    \/ SendControlMessage
    \/ ReadAndLoadRemoteKey
    \/ SetupKeys
    \/ SendPushRequest
    \/ ReadPushReply
    \/ HandshakeDone

(***************************************************************************)
(* muxer.Read and handleIncomingPacket, on a muxer whose data channel is   *)
(* set up.                                                                 *)
(***************************************************************************)
\* muxer.Read has not returned
NoReadRet == [n |-> 0, err |-> "none"]

RdInit ==
    /\ rdPc = "idle"
    /\ rdRet = NoReadRet
    /\ rdBuf = <<>>
    /\ rdB = 0
    /\ rdSeen = <<>>
    /\ rdDelivered = <<>>
    /\ pingReplies = 0

\* what readPacket(m.conn) can give handleIncomingPacket: a read error, the
\* keepalive, bytes that do not parse, a control packet of the server (its
\* hard reset among them), an ACK, a packet of an unknown opcode, a data
\* packet that decrypts, a data packet that does not
MuxReadInputs ==
    {"readError", "ping", "unparsable", "P_CONTROL_HARD_RESET_SERVER_V2",
     "P_CONTROL_V1", "P_ACK_V1", "unknown", "data", "badData"}

\* muxer.handleIncomingPacket(nil) on the packet in: (true, nil) for a data
\* packet whose plaintext went to bufReader, (false, nil) for a packet that
\* was handled or ignored, (false, err) otherwise
handleIncomingPacket(in) ==
    CASE in = "readError" -> [ok |-> FALSE, err |-> "errRead"]
      [] in = "ping" -> [ok |-> FALSE, err |-> "nil"]
      [] in = "unparsable" -> [ok |-> FALSE, err |-> "errBadInput"]
      [] in \in {"P_CONTROL_HARD_RESET_SERVER_V2", "P_CONTROL_V1"} ->
            [ok |-> FALSE, err |-> "nil"]
      [] in = "P_ACK_V1" -> [ok |-> FALSE, err |-> "nil"]
      [] in = "unknown" -> [ok |-> FALSE, err |-> "nil"]
      [] in = "badData" -> [ok |-> FALSE, err |-> "errCannotDecrypt"]
      [] in = "data" -> [ok |-> TRUE, err |-> "nil"]

\* bytes.Buffer.Read(b) on a buffer holding buf: as many bytes as b takes;
\* on an empty buffer (0, nil) for an empty b and (0, io.EOF) otherwise
BufferRead(buf, lenb) ==
    IF buf = <<>>
    THEN [out |-> <<>>, rest |-> <<>>,
          err |-> IF lenb = 0 THEN "nil" ELSE "EOF"]
    ELSE LET n == IF lenb < Len(buf) THEN lenb ELSE Len(buf)
         IN [out |-> SubSeq(buf, 1, n), rest |-> SubSeq(buf, n + 1, Len(buf)),
             err |-> "nil"]

\* a caller enters muxer.Read(b) with a b of some length
MuxerReadCall ==
    /\ rdPc \in {"idle", "returned"}
    /\ Len(rdSeen) < MaxMuxReads
    /\ rdPc' = "loop"
    /\ rdRet' = NoReadRet
    /\ \E lenb \in 0..MaxMuxReadLen : rdB' = lenb
    /\ UNCHANGED <<rdBuf, rdSeen, rdDelivered, pingReplies, NotRd>>

\* one turn of the loop of muxer.Read: handleIncomingPacket(nil); an error
\* is returned to the caller, (false, nil) reads again, (true, nil) ends
\* the loop after the plaintext of plen bytes was written to bufReader, and
\* Read returns m.bufReader.Read(b)
MuxerReadPacket(in, plen) ==
    /\ rdPc = "loop"
    /\ Len(rdSeen) < MaxMuxReads
    /\ rdSeen' = Append(rdSeen, in)
    /\ pingReplies' = IF in = "ping" THEN pingReplies + 1 ELSE pingReplies
    /\ LET r == handleIncomingPacket(in)
           plaintext == [i \in 1..plen |->
                            Len(rdDelivered) + Len(rdBuf) + i]
           rd == BufferRead(rdBuf \o plaintext, rdB)
       IN IF r.err # "nil"
          THEN /\ rdRet' = [n |-> 0, err |-> r.err]
               /\ rdPc' = "returned"
               /\ UNCHANGED <<rdBuf, rdDelivered>>
          ELSE IF r.ok
          THEN /\ rdRet' = [n |-> Len(rd.out), err |-> rd.err]
               /\ rdDelivered' = rdDelivered \o rd.out
               /\ rdBuf' = rd.rest
               /\ rdPc' = "returned"
          ELSE UNCHANGED <<rdPc, rdRet, rdBuf, rdDelivered>>
    /\ UNCHANGED <<rdB, NotRd>>

RdNext ==
    \/ MuxerReadCall
    \/ \E in \in MuxReadInputs \ {"data"} : MuxerReadPacket(in, 0)
    \/ \E plen \in 0..MaxPlaintextLen : MuxerReadPacket("data", plen)

(***************************************************************************)
(* session.NewManager                                                      *)
(***************************************************************************)
\* the session of tlsTransport before its first write
TxInit ==
    /\ localPacketID = 1
    /\ txWrites = <<>>
    /\ txTimeouts = <<>>

\* moveDownWorker has no payload or packet in hand
NoDownData == [id |-> U32Zero, data |-> 0]
\* moveUpWorker has no plaintext in hand
NoUpData == [kind |-> "none", n |-> 0]

\* the data-channel workers as StartWorkers leaves them
DCInit ==
    /\ shutdown = FALSE
    /\ workersDone = {}
    /\ downPc = "waitKey"
    /\ upPc = "wait"
    /\ keyPc = "wait"
    /\ keyInstalled = FALSE
    /\ tunToData = <<>>
    /\ dataOrControlToMuxer = <<>>
    /\ muxerToData = <<>>
    /\ dataToTUN = <<>>
    /\ keyReady = <<>>
    /\ downData = NoDownData
    /\ upData = NoUpData
    /\ downErr = "none"
    /\ dropped = 0
    /\ tunWrites = 0
    /\ inboundPkts = 0
    /\ keysPosted = 0

\* a byte string of n bytes, all equal to v
Bytes(n, v) == [i \in 1..n |-> v]

\* the concatenation of a sequence of byte strings
RECURSIVE Concat(_)
Concat(ss) == IF ss = <<>> THEN <<>> ELSE Head(ss) \o Concat(Tail(ss))

\* the packets a peer frames onto the stream: the empty one, short ones
\* whose bytes look like a length prefix, and two long enough for the
\* high byte of the length to count
TCPPayloads == {<<>>, <<0>>, <<0, 1>>, Bytes(LongPayloadLen, 1),
                Bytes(LongPayloadLen + 2, 0)}

\* the writer's frame: a 2-byte big-endian length, then the payload
SizeFrame(payload) ==
    <<Len(payload) \div 256, Len(payload) % 256>> \o payload

\* all sequences of at most n packets
RECURSIVE PacketSeqs(_)
PacketSeqs(n) ==
    IF n = 0 THEN {<<>>}
    ELSE PacketSeqs(n - 1) \cup
         {Append(ps, p) : ps \in {q \in PacketSeqs(n - 1) : Len(q) = n - 1},
                          p \in TCPPayloads}

\* the stream carrying the frames of ps, cut bytes short of its end
StreamOf(ps, cut) ==
    LET all == Concat([i \in 1..Len(ps) |-> SizeFrame(ps[i])])
    IN SubSeq(all, 1, Len(all) - cut)

\* a stream conn that carries no frame
TCPIdle ==
    /\ tcpConn = <<>>
    /\ tcpWritten = <<>>
    /\ tcpCut = 0
    /\ tcpGot = <<>>
    /\ tcpErr = "nil"

\* a stream conn on which the peer framed some packets back to back and
\* which then ended, possibly inside the last frame
TCPStream ==
    \E ps \in PacketSeqs(MaxFrames) :
        \E cut \in 0..MaxCut :
            /\ cut <= Len(Concat([i \in 1..Len(ps) |-> SizeFrame(ps[i])]))
            /\ tcpConn = StreamOf(ps, cut)
            /\ tcpWritten = ps
            /\ tcpCut = cut
            /\ tcpGot = <<>>
            /\ tcpErr = "nil"

\* the result of a call that returns a byte string and an error; a panic
\* of the call is the error "panic"
Ret(out, err) == [out |-> out, err |-> err]

NotCalled == Ret(<<>>, "none")

\* a []byte: the bytes up to its length, and the bytes of its backing
\* array beyond its length, up to its capacity
Slice(bytes, beyond) == [bytes |-> bytes, beyond |-> beyond]

\* s[:n]: the first n bytes of the backing array; a bound above the
\* capacity panics
SliceTo(s, n) ==
    IF n > Len(s.bytes) + Len(s.beyond) THEN Ret(<<>>, "panic")
    ELSE Ret(SubSeq(s.bytes \o s.beyond, 1, n), "nil")

\* a dataCipherAES nobody has called
CipherIdle ==
    /\ ciCipher = [ksb |-> 0, mode |-> "none"]
    /\ ciArgs = [key |-> <<>>, iv |-> Slice(<<>>, <<>>), plaintext |-> <<>>,
                 ad |-> <<>>]
    /\ ciPc = "start"
    /\ ciEnc = NotCalled
    /\ ciDec = NotCalled

\* plaintexts: empty, shorter than a block, one block ending in each kind
\* of byte the unpadding looks at, and two blocks
CipherPlaintexts ==
    {<<>>, Bytes(5, 104), Bytes(2 * AESBlockSize, 7)} \cup
    {Bytes(AESBlockSize - 1, 97) \o <<last>> :
         last \in {0, 1, 7, AESBlockSize, AESBlockSize + 1, 97}} \cup
    {Bytes(AESBlockSize - n, 97) \o Bytes(n, n) : n \in {2, 8, 9}}

\* the key sizes in bytes: one newDataCipher takes and AES does not, and
\* those of AES
CipherKeySizes == {8, 16, 24, 32}

\* the iv slices: the 12-byte nonce of GCM with capacity 12 and with
\* capacity 16 (as a prefix sliced off a longer buffer is), and one block
CipherIVs ==
    {Slice(Bytes(GCMNonceSize, 3), <<>>),
     Slice(Bytes(GCMNonceSize, 3), Bytes(AESBlockSize - GCMNonceSize, 5)),
     Slice(Bytes(AESBlockSize, 3), <<>>)}

\* a cipher of each mode and key size with a key of its size, an iv slice,
\* a plaintext and the associated data
CipherDraw ==
    \E mode \in {"cbc", "gcm"}, ksb \in CipherKeySizes, kb \in {1, 200},
       iv \in CipherIVs, plaintext \in CipherPlaintexts,
       ad \in {<<>>, <<0, 0, 0, 1>>} :
        /\ ciCipher = [ksb |-> ksb, mode |-> mode]
        /\ ciArgs = [key |-> Bytes(ksb, kb), iv |-> iv,
                     plaintext |-> plaintext, ad |-> ad]
        /\ ciPc = "start"
        /\ ciEnc = NotCalled
        /\ ciDec = NotCalled

\* no call of the padding functions
PadIdle ==
    /\ padB = <<>>
    /\ padBs = 0
    /\ padPc = "start"
    /\ padRet = NotCalled
    /\ unpadRet = NotCalled

\* all byte strings of at most n bytes taken from bs
RECURSIVE ByteStrings(_, _)
ByteStrings(n, bs) ==
    IF n = 0 THEN {<<>>}
    ELSE ByteStrings(n - 1, bs) \cup
         {Append(b, x) : b \in {c \in ByteStrings(n - 1, bs) : Len(c) = n - 1},
                         x \in bs}

\* the bytes of the inputs: 0, small counts that read as padding, a letter
PadBytes == {0, 1, 3, 97}

\* block sizes: the smallest, small ones, that of AES, the largest a byte
\* can name and one more
PadBlockSizes == {1, 2, 4, AESBlockSize, 255, 256}

\* a byte string, short or just under the largest block size, and a block
\* size
PadDraw ==
    \E b \in ByteStrings(MaxPadInputLen, PadBytes)
             \cup {Bytes(254, 97), Bytes(255, 97)},
       bs \in PadBlockSizes :
        /\ padB = b
        /\ padBs = bs
        /\ padPc = "start"
        /\ padRet = NotCalled
        /\ unpadRet = NotCalled

\* no call of the option-string functions
OptIdle ==
    /\ optIn = <<>>
    /\ optPc = "start"
    /\ optEnc = NotCalled
    /\ optDec = NotCalled

\* the bytes of option strings and of encoded options: NUL, small numbers
\* that read as a length, a letter
OptBytes == {0, 1, 2, 97}

\* an option string or an encoded option: every short byte string, and
\* strings whose length is around one byte's and two bytes' range
OptDraw ==
    \E b \in ByteStrings(MaxOptLen, OptBytes)
             \cup {Bytes(n, 97) : n \in {254, 255, 256, MaxUint16 - 2,
                                         MaxUint16 - 1, MaxUint16,
                                         MaxUint16 + 1}} :
        /\ optIn = b
        /\ optPc = "start"
        /\ optEnc = NotCalled
        /\ optDec = NotCalled

\* no dataCipher and no error
NoCipher == [ksb |-> 0, mode |-> "none", err |-> "none"]

\* no call of newDataCipherFromCipherSuite
SuiteIdle ==
    /\ suiteParts = [alg |-> "", bits |-> 0, mode |-> ""]
    /\ suiteName = ""
    /\ suitePc = "start"
    /\ suiteRet = NoCipher

\* the pieces of a cipher suite string: the algorithm, the key size in
\* bits and the mode
SuiteAlgs == {"AES", "aes", "BF", "CAMELLIA", "CHACHA20"}
SuiteBits == {0, 64, 128, 192, 256, 512}
SuiteModes == {"CBC", "GCM", "cbc", "CTR", "POLY1305"}

\* the string "<alg>-<bits>-<mode>"
SuiteString(alg, bits, mode) == alg \o "-" \o ToString(bits) \o "-" \o mode

\* a cipher suite string as a configuration can spell it
SuiteDraw ==
    \E alg \in SuiteAlgs, bits \in SuiteBits, mode \in SuiteModes :
        /\ suiteParts = [alg |-> alg, bits |-> bits, mode |-> mode]
        /\ suiteName = SuiteString(alg, bits, mode)
        /\ suitePc = "start"
        /\ suiteRet = NoCipher

\* model.TunnelInfo{}: the zero value
ZeroTunnelInfo ==
    [GW |-> "", IP |-> "", MTU |-> 0, NetMask |-> "", PeerID |-> 0]

\* the tunnelInfo of a Manager that NewManager returned
TunIdle ==
    /\ tunnelInfo = ZeroTunnelInfo
    /\ tiIn = <<>>
    /\ tiPc = "idle"
    /\ tiErr = "none"
    /\ tuPc = "idle"

\* a readPacket nobody has called
NetIdle ==
    /\ rpNetwork = ""
    /\ rpConn = [bytes |-> <<>>, end |-> "EOF"]
    /\ rpPc = "start"
    /\ rpRet = NotCalled

\* the names conn.LocalAddr().Network() can return: those of TCP, those of
\* UDP, that of a Unix socket, and a name no network has
Networks == {"tcp", "tcp4", "tcp6", "udp", "udp4", "udp6", "unix", "upd6"}

\* the bytes of a packet on the carrier
NetBytes == {0, 1, 7}

\* what a Read returns on a conn that holds no bytes: io.EOF, or the error
\* of a deadline that passed
NetReadErrors == {"EOF", "ErrDeadlineExceeded"}

\* a conn of some network that holds one packet behind its size frame, or
\* nothing
NetDraw ==
    \E network \in Networks, end \in NetReadErrors,
       bytes \in {<<>>} \cup {SizeFrame(payload) :
                              payload \in ByteStrings(MaxDatagramLen, NetBytes)} :
        /\ rpNetwork = network
        /\ rpConn = [bytes |-> bytes, end |-> end]
        /\ rpPc = "start"
        /\ rpRet = NotCalled

\* a splitPreMasterSecret nobody has called
PmsIdle ==
    /\ pmsSecret = <<>>
    /\ pmsPc = "start"
    /\ pmsS1 = <<>>
    /\ pmsS2 = <<>>

\* the bytes of a secret
SecretBytes == {0, 1, 2}

\* a secret of any length up to the bound
PmsDraw ==
    \E secret \in ByteStrings(MaxSecretLen, SecretBytes) :
        /\ pmsSecret = secret
        /\ pmsPc = "start"
        /\ pmsS1 = <<>>
        /\ pmsS2 = <<>>

\* newCloseOnceConn: a sync.Once that has not run, around an open conn
newCloseOnceConn ==
    /\ onceDone = 0
    /\ onceM = 0
    /\ cpc = [t \in Tasks |-> "idle"]
    /\ cerr = [t \in Tasks |-> "nil"]
    /\ cran = [t \in Tasks |-> FALSE]
    /\ connCloses = 0
    /\ closeRets = <<>>
    /\ closeCalls = 0

\* the helpers beside the session before any call; a specification that
\* draws the arguments of one helper names it in except
AuxIdle(except) ==
    /\ newCloseOnceConn
    /\ IF except = "tcp" THEN TRUE ELSE TCPIdle
    /\ IF except = "cipher" THEN TRUE ELSE CipherIdle
    /\ IF except = "pad" THEN TRUE ELSE PadIdle
    /\ IF except = "opt" THEN TRUE ELSE OptIdle
    /\ IF except = "suite" THEN TRUE ELSE SuiteIdle
    /\ TunIdle
    /\ IF except = "net" THEN TRUE ELSE NetIdle
    /\ IF except = "pms" THEN TRUE ELSE PmsIdle

\* the Manager with its layers and workers, before any call
SessionInit(base) ==
    /\ mu = 0
    /\ localControlPacketID = base.ctrl
    /\ localDataPacketID = base.data
    /\ negState = 0
    /\ remoteSessionID = None
    /\ mpc = [t \in Tasks |-> "idle"]
    /\ mop = [t \in Tasks |-> NoOp]
    /\ mres = [t \in Tasks |-> NoRes]
    /\ ncalls = 0
    /\ ctrlIssued = <<>>
    /\ dataIssued = <<>>
    /\ hardResets = <<>>
    /\ pidBase = base
    /\ panicked = FALSE
    /\ TLSInit
    /\ MuxInit
    /\ RdInit
    /\ TxInit
    /\ DCInit

\* NewManager sets both counters to 1; a Manager that has been running for
\* a long time holds counters close to math.MaxUint32.
NewManager(base) ==
    /\ AuxIdle("none")
    /\ SessionInit(base)

FreshBase == [ctrl |-> U32One, data |-> U32One]

AgedBase == [ctrl |-> U32Aged, data |-> U32Aged]

\* a fresh session beside one helper whose arguments are yet to be drawn
NewManagerExcept(except) ==
    /\ AuxIdle(except)
    /\ SessionInit(FreshBase)

MgrInit == \E base \in {FreshBase, AgedBase} : NewManager(base)

(***************************************************************************)
(* Manager methods.  Every locked method is: call, Lock, body, Unlock.     *)
(***************************************************************************)
MgrCall(t, kind, arg) ==
    /\ ~panicked
    /\ mpc[t] = "idle"
    /\ ncalls < MaxCalls
    /\ ncalls' = ncalls + 1
    /\ mop' = [mop EXCEPT ![t] = [kind |-> kind, arg |-> arg]]
    /\ mres' = [mres EXCEPT ![t] = NoRes]
    /\ mpc' = [mpc EXCEPT ![t] = IF kind = "NewHardResetPacket" THEN "body" ELSE "lock"]
    /\ UNCHANGED <<mu, localControlPacketID, localDataPacketID, negState,
                   remoteSessionID, ctrlIssued, dataIssued, hardResets,
                   pidBase, panicked, NotMgr>>

CallNewPacket(t) == \E opcode \in Opcodes : MgrCall(t, "NewPacket", opcode)
CallLocalDataPacketID(t) == MgrCall(t, "LocalDataPacketID", 0)
CallNewHardResetPacket(t) == MgrCall(t, "NewHardResetPacket", 0)
CallSetNegotiationState(t) == \E sns \in NegotiationStates : MgrCall(t, "SetNegotiationState", sns)
CallSetRemoteSessionID(t) == \E sid \in SessionIDs : MgrCall(t, "SetRemoteSessionID", sid)

\* m.mu.Lock() taken without waiting for the holder
Lock_NoExclusion(t) ==
    /\ ~panicked
    /\ mpc[t] = "lock"
    /\ mu' = t
    /\ mpc' = [mpc EXCEPT ![t] = "body"]
    /\ UNCHANGED <<localControlPacketID, localDataPacketID, negState,
                   remoteSessionID, mop, mres, ncalls, ctrlIssued, dataIssued,
                   hardResets, pidBase, panicked, NotMgr>>

\* m.mu.Lock()
Lock(t) ==
    /\ ~panicked
    /\ mpc[t] = "lock"
    /\ mu = 0
    /\ mu' = t
    /\ mpc' = [mpc EXCEPT ![t] = "body"]
    /\ UNCHANGED <<localControlPacketID, localDataPacketID, negState,
                   remoteSessionID, mop, mres, ncalls, ctrlIssued, dataIssued,
                   hardResets, pidBase, panicked, NotMgr>>

\* defer m.mu.Unlock(), and the return
Unlock(t) ==
    /\ ~panicked
    /\ mpc[t] = "unlock"
    /\ mu' = 0
    /\ mpc' = [mpc EXCEPT ![t] = "idle"]
    /\ mop' = [mop EXCEPT ![t] = NoOp]
    /\ mres' = [mres EXCEPT ![t] = NoRes]
    /\ UNCHANGED <<localControlPacketID, localDataPacketID, negState,
                   remoteSessionID, ncalls, ctrlIssued, dataIssued,
                   hardResets, pidBase, panicked, NotMgr>>

\* a packet-id getter that does not look at math.MaxUint32
PacketIDLocked_NoExpiry(counter) ==
    [pid |-> counter, err |-> "nil", seen |-> counter]

\* localDataPacketIDLocked / localControlPacketIDLocked: the read of the
\* counter and the check against math.MaxUint32
PacketIDLocked(counter) ==
    IF counter = MaxUint32
    THEN [pid |-> U32Zero, err |-> "ErrExpiredKey", seen |-> counter]
    ELSE [pid |-> counter, err |-> "nil", seen |-> counter]

\* whether the call of task t draws from the control counter
UsesControlCounter(t) == mop[t].kind = "NewPacket" /\ IsControl(mop[t].arg)
UsesDataCounter(t) ==
    \/ mop[t].kind = "LocalDataPacketID"
    \/ mop[t].kind = "NewPacket" /\ ~IsControl(mop[t].arg)

\* NewPacket / LocalDataPacketID: pid := m.local...PacketID and the check
ReadPacketID(t) ==
    /\ ~panicked
    /\ mpc[t] = "body"
    /\ mop[t].kind \in {"NewPacket", "LocalDataPacketID"}
    /\ LET r == IF UsesControlCounter(t)
                THEN PacketIDLocked(localControlPacketID)
                ELSE PacketIDLocked(localDataPacketID)
       IN /\ mres' = [mres EXCEPT ![t] = r]
          /\ mpc' = [mpc EXCEPT ![t] = IF r.err = "nil" THEN "incr" ELSE "unlock"]
          /\ ctrlIssued' = IF r.err = "nil" /\ UsesControlCounter(t)
                           THEN Append(ctrlIssued, r.pid) ELSE ctrlIssued
          /\ dataIssued' = IF r.err = "nil" /\ UsesDataCounter(t)
                           THEN Append(dataIssued, r.pid) ELSE dataIssued
    /\ UNCHANGED <<mu, localControlPacketID, localDataPacketID, negState,
                   remoteSessionID, mop, ncalls, hardResets, pidBase, panicked, NotMgr>>

\* m.local...PacketID++ (uint32)
IncrPacketID(t) ==
    /\ ~panicked
    /\ mpc[t] = "incr"
    /\ IF UsesControlCounter(t)
       THEN /\ localControlPacketID' = U32Inc(localControlPacketID)
            /\ UNCHANGED localDataPacketID
       ELSE /\ localDataPacketID' = U32Inc(localDataPacketID)
            /\ UNCHANGED localControlPacketID
    /\ mpc' = [mpc EXCEPT ![t] = "unlock"]
    /\ UNCHANGED <<mu, negState, remoteSessionID, mop, mres, ncalls, ctrlIssued,
                   dataIssued, hardResets, pidBase, panicked, NotMgr>>

\* a hard reset that draws its id from the control counter
NewHardResetPacket_Counted(t) ==
    /\ ~panicked
    /\ mpc[t] = "body"
    /\ mop[t].kind = "NewHardResetPacket"
    /\ hardResets' = Append(hardResets, [id |-> localControlPacketID,
                                          ctrlBefore |-> Len(ctrlIssued)])
    /\ localControlPacketID' = U32Inc(localControlPacketID)
    /\ mop' = [mop EXCEPT ![t] = NoOp]
    /\ mpc' = [mpc EXCEPT ![t] = "idle"]
    /\ UNCHANGED <<mu, localDataPacketID, negState, remoteSessionID, mres,
                   ncalls, ctrlIssued, dataIssued, pidBase, panicked, NotMgr>>

\* NewHardResetPacket: packet.ID = 0; takes no lock, touches no counter
NewHardResetPacket(t) ==
    /\ ~panicked
    /\ mpc[t] = "body"
    /\ mop[t].kind = "NewHardResetPacket"
    /\ hardResets' = Append(hardResets, [id |-> U32Zero,
                                          ctrlBefore |-> Len(ctrlIssued)])
    /\ mop' = [mop EXCEPT ![t] = NoOp]
    /\ mpc' = [mpc EXCEPT ![t] = "idle"]
    /\ UNCHANGED <<mu, localControlPacketID, localDataPacketID, negState,
                   remoteSessionID, mres, ncalls, ctrlIssued, dataIssued,
                   pidBase, panicked, NotMgr>>

\* SetNegotiationState: m.negState = sns; then, for S_GENERATED_KEYS, the
\* send on the unbuffered Ready channel, made with the mutex held
SetNegotiationState(t) ==
    /\ ~panicked
    /\ mpc[t] = "body"
    /\ mop[t].kind = "SetNegotiationState"
    /\ negState' = mop[t].arg
    /\ mpc' = [mpc EXCEPT ![t] = IF mop[t].arg = S_GENERATED_KEYS
                                 THEN "sendReady" ELSE "unlock"]
    /\ UNCHANGED <<mu, localControlPacketID, localDataPacketID, remoteSessionID,
                   mop, mres, ncalls, ctrlIssued, dataIssued, hardResets,
                   pidBase, panicked, NotMgr>>

\* m.Ready <- true completes when some task receives from Ready
ReadyReceived(t) ==
    /\ ~panicked
    /\ mpc[t] = "sendReady"
    /\ mpc' = [mpc EXCEPT ![t] = "unlock"]
    /\ UNCHANGED <<mu, localControlPacketID, localDataPacketID, negState,
                   remoteSessionID, mop, mres, ncalls, ctrlIssued, dataIssued,
                   hardResets, pidBase, panicked, NotMgr>>

\* SetRemoteSessionID: runtimex.Assert(m.remoteSessionID.IsNone(), ...);
\* the panic runs the deferred Unlock and ends the program
SetRemoteSessionID(t) ==
    /\ ~panicked
    /\ mpc[t] = "body"
    /\ mop[t].kind = "SetRemoteSessionID"
    /\ IF IsNone(remoteSessionID)
       THEN /\ remoteSessionID' = Some(mop[t].arg)
            /\ mpc' = [mpc EXCEPT ![t] = "unlock"]
            /\ UNCHANGED <<mu, panicked>>
       ELSE /\ panicked' = TRUE
            /\ mu' = 0
            /\ mpc' = [mpc EXCEPT ![t] = "panic"]
            /\ UNCHANGED remoteSessionID
    /\ UNCHANGED <<localControlPacketID, localDataPacketID, negState, mop, mres,
                   ncalls, ctrlIssued, dataIssued, hardResets, pidBase, NotMgr>>

(***************************************************************************)
(* tlsTransport.WritePacket: outbound control packets.                     *)
(***************************************************************************)
\* TLSConn.Write -> tlsTransport.WritePacket: the packet takes the session's
\* next local packet id and is written to the carrier once
WritePacket ==
    /\ localPacketID <= MaxWrites
    /\ localPacketID' = localPacketID + 1
    /\ \E ok \in BOOLEAN :
          /\ txWrites' = Append(txWrites, IF ok THEN 1 ELSE 0)
          /\ txTimeouts' = Append(txTimeouts, 0)
    /\ UNCHANGED NotTx

\* the retransmission timeout of outbound packet id passes and the peer has
\* not acknowledged it; no code of the transport runs on a timer
RetransmitTimeout(id) ==
    /\ id \in DOMAIN txWrites
    /\ txWrites[id] >= 1
    /\ txTimeouts[id] < MaxTimeouts
    /\ txTimeouts' = [txTimeouts EXCEPT ![id] = @ + 1]
    /\ UNCHANGED <<localPacketID, txWrites, NotTx>>

\* tlsTransport.ReadPacket gets an ACK from the peer: "got ACK (ignored)"
ReadInboundACK == doReadFromConn([kind |-> "ack", id |-> 0])

TxNext ==
    \/ WritePacket
    \/ \E id \in 1 .. MaxWrites : RetransmitTimeout(id)
    \/ \E blen \in 1 .. MaxReadLen : TLSRead(blen)
    \/ doReadFromQueue
    \/ ReadInboundACK

(***************************************************************************)
(* datachannel: moveDownWorker, moveUpWorker, keyWorker.                   *)
(***************************************************************************)
\* the kinds of data packet the muxer hands up: one that decrypts to a
\* payload, one that decrypts to the 16-byte keepalive, one that does not
\* decrypt
InboundKinds == {"data", "ping", "bad"}

\* the goroutine of keyWorker, as a holder of the Manager's mutex
KeyWorkerTask == NumTasks + 1

\* the workers StartWorkers starts
Workers == {"moveUpWorker", "moveDownWorker", "keyWorker"}

\* the deferred calls of a worker that returns: OnWorkerDone, StartShutdown
WorkerReturns(w) ==
    /\ workersDone' = workersDone \cup {w}
    /\ shutdown' = TRUE

\* ---- moveDownWorker ----
\* case <-ws.newKey, while keyWorker is at ws.newKey <- true
DownRecvNewKey ==
    /\ downPc = "waitKey"
    /\ keyPc = "sendNewKey"
    /\ downPc' = "loop"
    /\ keyPc' = "wait"
    /\ UNCHANGED <<shutdown, workersDone, upPc, keyInstalled, tunToData,
                   dataOrControlToMuxer, muxerToData, dataToTUN, keyReady,
                   downData, upData, downErr, dropped, tunWrites, inboundPkts,
                   keysPosted, mu, localDataPacketID, dataIssued, negState, NotDC>>

\* a receive that takes the newest payload of the queue, not the oldest
DownTakePayload_Newest ==
    /\ downPc = "loop"
    /\ tunToData # <<>>
    /\ downData' = [id |-> U32Zero, data |-> tunToData[Len(tunToData)]]
    /\ tunToData' = SubSeq(tunToData, 1, Len(tunToData) - 1)
    /\ downPc' = "encrypt"
    /\ UNCHANGED <<shutdown, workersDone, upPc, keyPc, keyInstalled,
                   dataOrControlToMuxer, muxerToData, dataToTUN, keyReady,
                   upData, downErr, dropped, tunWrites, inboundPkts,
                   keysPosted, mu, localDataPacketID, dataIssued, negState, NotDC>>

\* case data := <-ws.tunToData
DownTakePayload ==
    /\ downPc = "loop"
    /\ tunToData # <<>>
    /\ downData' = [id |-> U32Zero, data |-> Head(tunToData)]
    /\ tunToData' = Tail(tunToData)
    /\ downPc' = "encrypt"
    /\ UNCHANGED <<shutdown, workersDone, upPc, keyPc, keyInstalled,
                   dataOrControlToMuxer, muxerToData, dataToTUN, keyReady,
                   upData, downErr, dropped, tunWrites, inboundPkts,
                   keysPosted, mu, localDataPacketID, dataIssued, negState, NotDC>>

\* dataChannel.writePacket(payload) for a session whose data packet counter
\* is counter: the packet carries the id Manager.LocalDataPacketID returns,
\* which advances the counter; its error is the error of writePacket
writePacket(payload, counter) ==
    LET r == PacketIDLocked(counter)
    IN [packet |-> [id |-> r.pid, data |-> payload],
        counter |-> IF r.err = "nil" THEN U32Inc(counter) ELSE counter,
        err |-> r.err]

\* packet, err := ws.dataChannel.writePacket(data): on an error the worker
\* logs it and continues with its loop, else it goes on to hand the packet
\* to the muxer
DownWritePacket ==
    /\ downPc = "encrypt"
    /\ mu = 0
    /\ LET w == writePacket(downData.data, localDataPacketID)
       IN IF w.err = "nil"
          THEN /\ localDataPacketID' = w.counter
               /\ dataIssued' = Append(dataIssued, w.packet.id)
               /\ downData' = w.packet
               /\ downErr' = "nil"
               /\ downPc' = "push"
          ELSE /\ downErr' = w.err
               /\ downData' = NoDownData
               /\ downPc' = "loop"
               /\ UNCHANGED <<localDataPacketID, dataIssued>>
    /\ UNCHANGED <<shutdown, workersDone, upPc, keyPc, keyInstalled, tunToData,
                   dataOrControlToMuxer, muxerToData, dataToTUN, keyReady,
                   upData, dropped, tunWrites, inboundPkts, keysPosted, mu,
                   negState, NotDC>>

\* select { case ws.dataOrControlToMuxer <- packet: }
DownPushPacket ==
    /\ downPc = "push"
    /\ Len(dataOrControlToMuxer) < ChanCap
    /\ dataOrControlToMuxer' = Append(dataOrControlToMuxer, downData)
    /\ downData' = NoDownData
    /\ downPc' = "loop"
    /\ UNCHANGED <<shutdown, workersDone, upPc, keyPc, keyInstalled, tunToData,
                   muxerToData, dataToTUN, keyReady, upData, downErr, dropped,
                   tunWrites, inboundPkts, keysPosted, mu, localDataPacketID,
                   dataIssued, negState, NotDC>>

\* the select without its default case: the send waits for room in the queue
DownDropPacket_Blocks ==
    /\ downPc = "push"
    /\ Len(dataOrControlToMuxer) < ChanCap
    /\ dataOrControlToMuxer' = Append(dataOrControlToMuxer, downData)
    /\ downData' = NoDownData
    /\ downPc' = "loop"
    /\ UNCHANGED <<shutdown, workersDone, upPc, keyPc, keyInstalled, tunToData,
                   muxerToData, dataToTUN, keyReady, upData, downErr, dropped,
                   tunWrites, inboundPkts, keysPosted, mu, localDataPacketID,
                   dataIssued, negState, NotDC>>

\* select { default: } taken when neither the send nor the shutdown is ready
DownDropPacket ==
    /\ downPc = "push"
    /\ Len(dataOrControlToMuxer) >= ChanCap
    /\ ~shutdown
    /\ dropped' = dropped + 1
    /\ downData' = NoDownData
    /\ downPc' = "loop"
    /\ UNCHANGED <<shutdown, workersDone, upPc, keyPc, keyInstalled, tunToData,
                   dataOrControlToMuxer, muxerToData, dataToTUN, keyReady,
                   upData, downErr, tunWrites, inboundPkts, keysPosted, mu,
                   localDataPacketID, dataIssued, negState, NotDC>>

\* case <-ws.workersManager.ShouldShutdown(): return, in any of the selects
DownShutdown ==
    /\ downPc \in {"waitKey", "loop", "push"}
    /\ shutdown
    /\ downPc' = "done"
    /\ WorkerReturns("moveDownWorker")
    /\ UNCHANGED <<upPc, keyPc, keyInstalled, tunToData, dataOrControlToMuxer,
                   muxerToData, dataToTUN, keyReady, downData, upData, downErr,
                   dropped, tunWrites, inboundPkts, keysPosted, mu,
                   localDataPacketID, dataIssued, negState, NotDC>>

\* ---- keyWorker ----
\* a keyWorker that goes on after setupKeys failed (not the code's
\* behaviour)
KeyRecv_IgnoresError ==
    /\ keyPc = "wait"
    /\ keyReady # <<>>
    /\ keyReady' = Tail(keyReady)
    /\ keyInstalled' = (keyInstalled \/ Head(keyReady) = "good")
    /\ keyPc' = "setNegotiationState"
    /\ UNCHANGED <<shutdown, workersDone, downPc, upPc, tunToData,
                   dataOrControlToMuxer, muxerToData, dataToTUN, downData,
                   upData, downErr, dropped, tunWrites, inboundPkts, keysPosted,
                   mu, localDataPacketID, dataIssued, negState, NotDC>>

\* case key := <-ws.keyReady; ws.dataChannel.setupKeys(key); on an error the
\* worker logs it and continues
KeyRecv ==
    /\ keyPc = "wait"
    /\ keyReady # <<>>
    /\ keyReady' = Tail(keyReady)
    /\ IF Head(keyReady) = "good"
       THEN /\ keyInstalled' = TRUE
            /\ keyPc' = "setNegotiationState"
       ELSE UNCHANGED <<keyInstalled, keyPc>>
    /\ UNCHANGED <<shutdown, workersDone, downPc, upPc, tunToData,
                   dataOrControlToMuxer, muxerToData, dataToTUN, downData,
                   upData, downErr, dropped, tunWrites, inboundPkts, keysPosted,
                   mu, localDataPacketID, dataIssued, negState, NotDC>>

\* ws.sessionManager.SetNegotiationState(session.S_GENERATED_KEYS): takes the
\* mutex, stores the state and sends on Ready with the mutex held
KeySetNegotiationState ==
    /\ keyPc = "setNegotiationState"
    /\ mu = 0
    /\ mu' = KeyWorkerTask
    /\ negState' = S_GENERATED_KEYS
    /\ keyPc' = "sendReady"
    /\ UNCHANGED <<shutdown, workersDone, downPc, upPc, keyInstalled, tunToData,
                   dataOrControlToMuxer, muxerToData, dataToTUN, keyReady,
                   downData, upData, downErr, dropped, tunWrites, inboundPkts,
                   keysPosted, localDataPacketID, dataIssued, NotDC>>

\* some task receives from Ready: SetNegotiationState returns, and keyWorker
\* goes on to ws.newKey <- true
KeyReadyReceived ==
    /\ keyPc = "sendReady"
    /\ mu' = 0
    /\ keyPc' = "sendNewKey"
    /\ UNCHANGED <<shutdown, workersDone, downPc, upPc, keyInstalled, tunToData,
                   dataOrControlToMuxer, muxerToData, dataToTUN, keyReady,
                   downData, upData, downErr, dropped, tunWrites, inboundPkts,
                   keysPosted, localDataPacketID, dataIssued, negState, NotDC>>

\* case <-ws.workersManager.ShouldShutdown(): return
KeyShutdown ==
    /\ keyPc = "wait"
    /\ shutdown
    /\ keyPc' = "done"
    /\ WorkerReturns("keyWorker")
    /\ UNCHANGED <<downPc, upPc, keyInstalled, tunToData, dataOrControlToMuxer,
                   muxerToData, dataToTUN, keyReady, downData, upData, downErr,
                   dropped, tunWrites, inboundPkts, keysPosted, mu,
                   localDataPacketID, dataIssued, negState, NotDC>>

\* ---- moveUpWorker ----
\* dataChannel.readPacket: the plaintext of a packet, or an error when the
\* packet does not decrypt or no key is installed
readPacket(pkt) ==
    IF keyInstalled /\ pkt.kind # "bad"
    THEN [plain |-> pkt, err |-> "nil"]
    ELSE [plain |-> 0, err |-> "errCannotDecrypt"]

\* case pkt := <-ws.muxerToData: decrypt; an error and a 16-byte plaintext
\* are skipped, anything else is to be sent on dataToTUN
UpRecv ==
    /\ upPc = "wait"
    /\ muxerToData # <<>>
    /\ muxerToData' = Tail(muxerToData)
    /\ LET r == readPacket(Head(muxerToData))
       IN IF r.err = "nil" /\ r.plain.kind # "ping"
          THEN /\ upData' = r.plain
               /\ upPc' = "toTUN"
          ELSE UNCHANGED <<upData, upPc>>
    /\ UNCHANGED <<shutdown, workersDone, downPc, keyPc, keyInstalled, tunToData,
                   dataOrControlToMuxer, dataToTUN, keyReady, downData, downErr,
                   dropped, tunWrites, inboundPkts, keysPosted, mu,
                   localDataPacketID, dataIssued, negState, NotDC>>

\* ws.dataToTUN <- decrypted
UpDeliver ==
    /\ upPc = "toTUN"
    /\ Len(dataToTUN) < ChanCap
    /\ dataToTUN' = Append(dataToTUN, upData)
    /\ upData' = NoUpData
    /\ upPc' = "wait"
    /\ UNCHANGED <<shutdown, workersDone, downPc, keyPc, keyInstalled, tunToData,
                   dataOrControlToMuxer, muxerToData, keyReady, downData,
                   downErr, dropped, tunWrites, inboundPkts, keysPosted, mu,
                   localDataPacketID, dataIssued, negState, NotDC>>

\* case <-ws.workersManager.ShouldShutdown(): return
UpShutdown ==
    /\ upPc = "wait"
    /\ shutdown
    /\ upPc' = "done"
    /\ WorkerReturns("moveUpWorker")
    /\ UNCHANGED <<downPc, keyPc, keyInstalled, tunToData, dataOrControlToMuxer,
                   muxerToData, dataToTUN, keyReady, downData, upData, downErr,
                   dropped, tunWrites, inboundPkts, keysPosted, mu,
                   localDataPacketID, dataIssued, negState, NotDC>>

\* ---- the neighbours of the data channel ----
\* the TUN side writes a payload
TUNWrites ==
    /\ tunWrites < MaxTunWrites
    /\ Len(tunToData) < ChanCap
    /\ tunWrites' = tunWrites + 1
    /\ tunToData' = Append(tunToData, tunWrites + 1)
    /\ UNCHANGED <<shutdown, workersDone, downPc, upPc, keyPc, keyInstalled,
                   dataOrControlToMuxer, muxerToData, dataToTUN, keyReady,
                   downData, upData, downErr, dropped, inboundPkts, keysPosted,
                   mu, localDataPacketID, dataIssued, negState, NotDC>>

\* the TUN side reads a plaintext
TUNReads ==
    /\ dataToTUN # <<>>
    /\ dataToTUN' = Tail(dataToTUN)
    /\ UNCHANGED <<shutdown, workersDone, downPc, upPc, keyPc, keyInstalled,
                   tunToData, dataOrControlToMuxer, muxerToData, keyReady,
                   downData, upData, downErr, dropped, tunWrites, inboundPkts,
                   keysPosted, mu, localDataPacketID, dataIssued, negState, NotDC>>

\* the muxer takes an encrypted packet
MuxerTakes ==
    /\ dataOrControlToMuxer # <<>>
    /\ dataOrControlToMuxer' = Tail(dataOrControlToMuxer)
    /\ UNCHANGED <<shutdown, workersDone, downPc, upPc, keyPc, keyInstalled,
                   tunToData, muxerToData, dataToTUN, keyReady, downData, upData,
                   downErr, dropped, tunWrites, inboundPkts, keysPosted, mu,
                   localDataPacketID, dataIssued, negState, NotDC>>

\* the muxer hands up an inbound data packet
MuxerDelivers(kind) ==
    /\ inboundPkts < MaxInbound
    /\ Len(muxerToData) < ChanCap
    /\ inboundPkts' = inboundPkts + 1
    /\ muxerToData' = Append(muxerToData, [kind |-> kind, n |-> inboundPkts + 1])
    /\ UNCHANGED <<shutdown, workersDone, downPc, upPc, keyPc, keyInstalled,
                   tunToData, dataOrControlToMuxer, dataToTUN, keyReady,
                   downData, upData, downErr, dropped, tunWrites, keysPosted,
                   mu, localDataPacketID, dataIssued, negState, NotDC>>

\* the TLS layer posts a key on KeyReady
KeyPosted(key) ==
    /\ keysPosted < MaxKeys
    /\ Len(keyReady) < ChanCap
    /\ keysPosted' = keysPosted + 1
    /\ keyReady' = Append(keyReady, key)
    /\ UNCHANGED <<shutdown, workersDone, downPc, upPc, keyPc, keyInstalled,
                   tunToData, dataOrControlToMuxer, muxerToData, dataToTUN,
                   downData, upData, downErr, dropped, tunWrites, inboundPkts,
                   mu, localDataPacketID, dataIssued, negState, NotDC>>

\* another service of the engine starts the shutdown
StartShutdown ==
    /\ ~shutdown
    /\ shutdown' = TRUE
    /\ UNCHANGED <<workersDone, downPc, upPc, keyPc, keyInstalled, tunToData,
                   dataOrControlToMuxer, muxerToData, dataToTUN, keyReady,
                   downData, upData, downErr, dropped, tunWrites, inboundPkts,
                   keysPosted, mu, localDataPacketID, dataIssued, negState, NotDC>>

DCNext ==
    \/ DownRecvNewKey
    \/ DownTakePayload
    \/ DownWritePacket
    \/ DownPushPacket
    \/ DownDropPacket
    \/ DownShutdown
    \/ KeyRecv
    \/ KeySetNegotiationState
    \/ KeyReadyReceived
    \/ KeyShutdown
    \/ UpRecv
    \/ UpDeliver
    \/ UpShutdown
    \/ TUNWrites
    \/ TUNReads
    \/ MuxerTakes
    \/ \E kind \in InboundKinds : MuxerDelivers(kind)
    \/ \E key \in {"good", "bad"} : KeyPosted(key)
    \/ StartShutdown

(***************************************************************************)
(* networkio.closeOnceConn: Close runs the underlying Close under a       *)
(* sync.Once.  Once.Do reads done, and when it is 0 takes the mutex, reads *)
(* done again, runs the function, stores done and releases the mutex.      *)
(***************************************************************************)

\* the results the underlying Conn.Close can give
ConnCloseResults == {"nil", "ErrClosed"}

\* a task calls Close: the named result err starts as nil
CloseCall(t) ==
    /\ cpc[t] = "idle"
    /\ closeCalls < MaxCloseCalls
    /\ closeCalls' = closeCalls + 1
    /\ cerr' = [cerr EXCEPT ![t] = "nil"]
    /\ cran' = [cran EXCEPT ![t] = FALSE]
    /\ cpc' = [cpc EXCEPT ![t] = "Do"]
    /\ UNCHANGED <<onceDone, onceM, connCloses, closeRets, NotClose>>

\* Once.Do: the fast path returns when done is set
OnceDo(t) ==
    /\ cpc[t] = "Do"
    /\ cpc' = [cpc EXCEPT ![t] = IF onceDone = 0 THEN "doSlow" ELSE "return"]
    /\ UNCHANGED <<onceDone, onceM, cerr, cran, connCloses, closeRets,
                   closeCalls, NotClose>>

\* doSlow without the second read of done (not the code's behaviour)
OnceDoSlow_NoRecheck(t) ==
    /\ cpc[t] = "doSlow"
    /\ onceM = 0
    /\ onceM' = t
    /\ cpc' = [cpc EXCEPT ![t] = "f"]
    /\ UNCHANGED <<onceDone, cerr, cran, connCloses, closeRets, closeCalls,
                   NotClose>>

\* Once.doSlow: take the mutex, then read done again
OnceDoSlow(t) ==
    /\ cpc[t] = "doSlow"
    /\ onceM = 0
    /\ onceM' = t
    /\ cpc' = [cpc EXCEPT ![t] = IF onceDone = 0 THEN "f" ELSE "unlock"]
    /\ UNCHANGED <<onceDone, cerr, cran, connCloses, closeRets, closeCalls,
                   NotClose>>

\* the function given to Once.Do: err = c.Conn.Close()
CloseUnderlying(t) ==
    /\ cpc[t] = "f"
    /\ \E r \in ConnCloseResults : cerr' = [cerr EXCEPT ![t] = r]
    /\ cran' = [cran EXCEPT ![t] = TRUE]
    /\ connCloses' = connCloses + 1
    /\ cpc' = [cpc EXCEPT ![t] = "store"]
    /\ UNCHANGED <<onceDone, onceM, closeRets, closeCalls, NotClose>>

\* Once.doSlow: the deferred done.Store(1)
OnceStoreDone(t) ==
    /\ cpc[t] = "store"
    /\ onceDone' = 1
    /\ cpc' = [cpc EXCEPT ![t] = "unlock"]
    /\ UNCHANGED <<onceM, cerr, cran, connCloses, closeRets, closeCalls,
                   NotClose>>

\* Once.doSlow: the deferred m.Unlock()
OnceUnlock(t) ==
    /\ cpc[t] = "unlock"
    /\ onceM = t
    /\ onceM' = 0
    /\ cpc' = [cpc EXCEPT ![t] = "return"]
    /\ UNCHANGED <<onceDone, cerr, cran, connCloses, closeRets, closeCalls,
                   NotClose>>

\* Close returns its named result
CloseReturn(t) ==
    /\ cpc[t] = "return"
    /\ closeRets' = Append(closeRets,
                           [task |-> t, ran |-> cran[t], err |-> cerr[t]])
    /\ cpc' = [cpc EXCEPT ![t] = "idle"]
    /\ UNCHANGED <<onceDone, onceM, cerr, cran, connCloses, closeCalls,
                   NotClose>>

CloseNext ==
    \E t \in Tasks :
        \/ CloseCall(t)
        \/ OnceDo(t)
        \/ OnceDoSlow(t)
        \/ CloseUnderlying(t)
        \/ OnceStoreDone(t)
        \/ OnceUnlock(t)
        \/ CloseReturn(t)


(***************************************************************************)
(* readPacketFromTCP: one packet off a stream conn                         *)
(***************************************************************************)

\* a conn: the bytes it holds for its reader, and the error its Read
\* returns once they are used up (io.EOF when the peer closed the stream,
\* another error for a deadline that passed or a closed conn)
Conn(bytes, end) == [bytes |-> bytes, end |-> end]

\* io.ReadFull(conn, buf) with len(buf) = n: the bytes and what is left of
\* the conn; when the conn gives out before n bytes, the error of its Read,
\* io.EOF after some bytes being turned into io.ErrUnexpectedEOF
ReadFull(conn, n) ==
    IF Len(conn.bytes) >= n
    THEN [buf |-> SubSeq(conn.bytes, 1, n),
          rest |-> Conn(SubSeq(conn.bytes, n + 1, Len(conn.bytes)), conn.end),
          err |-> "nil"]
    ELSE [buf |-> conn.bytes, rest |-> Conn(<<>>, conn.end),
          err |-> IF conn.bytes # <<>> /\ conn.end = "EOF"
                  THEN "ErrUnexpectedEOF" ELSE conn.end]

\* the length read with the low byte first (not the code's behaviour)
Uint16_LittleEndian(b) == b[2] * 256 + b[1]

\* binary.BigEndian.Uint16
Uint16(b) == b[1] * 256 + b[2]

\* readPacketFromTCP(conn): the packet, the error, and the stream after it
readPacketFromTCP(conn) ==
    LET lenbuf == ReadFull(conn, 2)
    IN IF lenbuf.err # "nil"
       THEN [buf |-> <<>>, err |-> lenbuf.err, rest |-> lenbuf.rest,
             isNil |-> TRUE]
       ELSE LET length == Uint16(lenbuf.buf)
                body == ReadFull(lenbuf.rest, length)
            IN IF body.err # "nil"
               THEN [buf |-> <<>>, err |-> body.err, rest |-> body.rest,
                     isNil |-> TRUE]
               ELSE [buf |-> body.buf, err |-> "nil", rest |-> body.rest,
                     isNil |-> FALSE]

\* one call of readPacketFromTCP on the conn; the caller stops at the
\* first error
ReadPacketFromTCP ==
    /\ tcpErr = "nil"
    /\ tcpWritten # <<>> \/ tcpGot = <<>>
    /\ Len(tcpGot) <= Len(tcpWritten)
    /\ LET r == readPacketFromTCP(Conn(tcpConn, "EOF"))
       IN /\ tcpConn' = r.rest.bytes
          /\ tcpErr' = r.err
          /\ tcpGot' = IF r.isNil THEN tcpGot ELSE Append(tcpGot, r.buf)
    /\ UNCHANGED <<tcpWritten, tcpCut, NotTCP>>

TCPNext == ReadPacketFromTCP


(***************************************************************************)
(* dataCipherAES: encrypt and decrypt, with AES, CBC and GCM computed byte *)
(* by byte as crypto/aes and crypto/cipher compute them.                   *)
(***************************************************************************)

\* a ^ b on numbers, bit by bit
RECURSIVE XorBits(_, _)
XorBits(a, b) ==
    IF a = 0 /\ b = 0 THEN 0
    ELSE ((a + b) % 2) + 2 * XorBits(a \div 2, b \div 2)

\* a ^ b on half bytes
XorNibble == [a \in 0..15 |-> [b \in 0..15 |-> XorBits(a, b)]]

\* a ^ b on bytes
XorByte(a, b) ==
    16 * XorNibble[a \div 16][b \div 16] + XorNibble[a % 16][b % 16]

\* the bytewise xor of two byte strings of one length
RECURSIVE XorBytes(_, _)
XorBytes(x, y) ==
    IF x = <<>> THEN <<>>
    ELSE <<XorByte(x[1], y[1])>> \o XorBytes(Tail(x), Tail(y))

\* crypto/aes: the S-box of AES, at index b + 1 for the byte b
SBox ==
    <<99, 124, 119, 123, 242, 107, 111, 197, 48, 1, 103, 43, 254, 215, 171, 118,
      202, 130, 201, 125, 250, 89, 71, 240, 173, 212, 162, 175, 156, 164, 114, 192,
      183, 253, 147, 38, 54, 63, 247, 204, 52, 165, 229, 241, 113, 216, 49, 21,
      4, 199, 35, 195, 24, 150, 5, 154, 7, 18, 128, 226, 235, 39, 178, 117,
      9, 131, 44, 26, 27, 110, 90, 160, 82, 59, 214, 179, 41, 227, 47, 132,
      83, 209, 0, 237, 32, 252, 177, 91, 106, 203, 190, 57, 74, 76, 88, 207,
      208, 239, 170, 251, 67, 77, 51, 133, 69, 249, 2, 127, 80, 60, 159, 168,
      81, 163, 64, 143, 146, 157, 56, 245, 188, 182, 218, 33, 16, 255, 243, 210,
      205, 12, 19, 236, 95, 151, 68, 23, 196, 167, 126, 61, 100, 93, 25, 115,
      96, 129, 79, 220, 34, 42, 144, 136, 70, 238, 184, 20, 222, 94, 11, 219,
      224, 50, 58, 10, 73, 6, 36, 92, 194, 211, 172, 98, 145, 149, 228, 121,
      231, 200, 55, 109, 141, 213, 78, 169, 108, 86, 244, 234, 101, 122, 174, 8,
      186, 120, 37, 46, 28, 166, 180, 198, 232, 221, 116, 31, 75, 189, 139, 138,
      112, 62, 181, 102, 72, 3, 246, 14, 97, 53, 87, 185, 134, 193, 29, 158,
      225, 248, 152, 17, 105, 217, 142, 148, 155, 30, 135, 233, 206, 85, 40, 223,
      140, 161, 137, 13, 191, 230, 66, 104, 65, 153, 45, 15, 176, 84, 187, 22>>

\* crypto/aes: the inverse S-box
InvSBox ==
    <<82, 9, 106, 213, 48, 54, 165, 56, 191, 64, 163, 158, 129, 243, 215, 251,
      124, 227, 57, 130, 155, 47, 255, 135, 52, 142, 67, 68, 196, 222, 233, 203,
      84, 123, 148, 50, 166, 194, 35, 61, 238, 76, 149, 11, 66, 250, 195, 78,
      8, 46, 161, 102, 40, 217, 36, 178, 118, 91, 162, 73, 109, 139, 209, 37,
      114, 248, 246, 100, 134, 104, 152, 22, 212, 164, 92, 204, 93, 101, 182, 146,
      108, 112, 72, 80, 253, 237, 185, 218, 94, 21, 70, 87, 167, 141, 157, 132,
      144, 216, 171, 0, 140, 188, 211, 10, 247, 228, 88, 5, 184, 179, 69, 6,
      208, 44, 30, 143, 202, 63, 15, 2, 193, 175, 189, 3, 1, 19, 138, 107,
      58, 145, 17, 65, 79, 103, 220, 234, 151, 242, 207, 206, 240, 180, 230, 115,
      150, 172, 116, 34, 231, 173, 53, 133, 226, 249, 55, 232, 28, 117, 223, 110,
      71, 241, 26, 113, 29, 41, 197, 137, 111, 183, 98, 14, 170, 24, 190, 27,
      252, 86, 62, 75, 198, 210, 121, 32, 154, 219, 192, 254, 120, 205, 90, 244,
      31, 221, 168, 51, 136, 7, 199, 49, 177, 18, 16, 89, 39, 128, 236, 95,
      96, 81, 127, 169, 25, 181, 74, 13, 45, 229, 122, 159, 147, 201, 156, 239,
      160, 224, 59, 77, 174, 42, 245, 176, 200, 235, 187, 60, 131, 83, 153, 97,
      23, 43, 4, 126, 186, 119, 214, 38, 225, 105, 20, 99, 85, 33, 12, 125>>

\* multiplication by x in GF(2^8) modulo x^8 + x^4 + x^3 + x + 1
Mul2 == [b \in 0..255 |-> IF b < 128 THEN 2 * b
                          ELSE XorByte((2 * b) % 256, 27)]

Mul3 == [b \in 0..255 |-> XorByte(Mul2[b], b)]

Mul4 == [b \in 0..255 |-> Mul2[Mul2[b]]]

Mul8 == [b \in 0..255 |-> Mul2[Mul4[b]]]

Mul9 == [b \in 0..255 |-> XorByte(Mul8[b], b)]

Mul11 == [b \in 0..255 |-> XorByte(Mul8[b], XorByte(Mul2[b], b))]

Mul13 == [b \in 0..255 |-> XorByte(Mul8[b], XorByte(Mul4[b], b))]

Mul14 == [b \in 0..255 |-> XorByte(Mul8[b], XorByte(Mul4[b], Mul2[b]))]

\* the round constants of the key expansion
Rcon == <<1, 2, 4, 8, 16, 32, 64, 128, 27, 54>>

RotWord(w) == <<w[2], w[3], w[4], w[1]>>

\* each byte of s replaced by the byte the box holds for it
RECURSIVE Substitute(_, _)
Substitute(box, s) ==
    IF s = <<>> THEN <<>>
    ELSE <<box[s[1] + 1]>> \o Substitute(box, Tail(s))

SubWord(w) == Substitute(SBox, w)

\* the key expansion of AES: the words w so far, up to total words; nk is
\* the number of words of the key
RECURSIVE KeyWords(_, _, _)
KeyWords(w, nk, total) ==
    IF Len(w) >= total THEN w
    ELSE LET i == Len(w)
             temp == w[i]
             t == IF i % nk = 0
                  THEN LET sw == SubWord(RotWord(temp))
                       IN <<XorByte(sw[1], Rcon[i \div nk]), sw[2], sw[3],
                            sw[4]>>
                  ELSE IF nk > 6 /\ i % nk = 4 THEN SubWord(temp)
                  ELSE temp
         IN KeyWords(Append(w, XorBytes(w[i + 1 - nk], t)), nk, total)

\* aes.NewCipher(key) for a key of 16, 24 or 32 bytes: the words of the
\* round keys, four for each of the 10, 12 or 14 rounds and four more
ExpandKey(key) ==
    LET nk == Len(key) \div 4
    IN KeyWords([i \in 1..nk |-> SubSeq(key, 4 * i - 3, 4 * i)], nk,
                4 * (nk + 7))

\* the state xored with the round key of round r (r from 0)
AddRoundKey(s, w, r) ==
    XorBytes(s, w[4 * r + 1] \o w[4 * r + 2] \o w[4 * r + 3] \o w[4 * r + 4])

SubBytes(s) == Substitute(SBox, s)

InvSubBytes(s) == Substitute(InvSBox, s)

\* row r of the state (bytes r + 1, r + 5, r + 9, r + 13) rotates left by
\* r columns
ShiftRows(s) ==
    <<s[1], s[6], s[11], s[16], s[5], s[10], s[15], s[4],
      s[9], s[14], s[3], s[8], s[13], s[2], s[7], s[12]>>

\* row r rotates right by r columns
InvShiftRows(s) ==
    <<s[1], s[14], s[11], s[8], s[5], s[2], s[15], s[12],
      s[9], s[6], s[3], s[16], s[13], s[10], s[7], s[4]>>

\* a column multiplied by the matrix of rows 2 3 1 1
MixColumn(a) ==
    <<XorByte(XorByte(Mul2[a[1]], Mul3[a[2]]), XorByte(a[3], a[4])),
      XorByte(XorByte(a[1], Mul2[a[2]]), XorByte(Mul3[a[3]], a[4])),
      XorByte(XorByte(a[1], a[2]), XorByte(Mul2[a[3]], Mul3[a[4]])),
      XorByte(XorByte(Mul3[a[1]], a[2]), XorByte(a[3], Mul2[a[4]]))>>

MixColumns(s) ==
    MixColumn(SubSeq(s, 1, 4)) \o MixColumn(SubSeq(s, 5, 8))
        \o MixColumn(SubSeq(s, 9, 12)) \o MixColumn(SubSeq(s, 13, 16))

\* a column multiplied by the matrix of rows 14 11 13 9
InvMixColumn(a) ==
    <<XorByte(XorByte(Mul14[a[1]], Mul11[a[2]]),
              XorByte(Mul13[a[3]], Mul9[a[4]])),
      XorByte(XorByte(Mul9[a[1]], Mul14[a[2]]),
              XorByte(Mul11[a[3]], Mul13[a[4]])),
      XorByte(XorByte(Mul13[a[1]], Mul9[a[2]]),
              XorByte(Mul14[a[3]], Mul11[a[4]])),
      XorByte(XorByte(Mul11[a[1]], Mul13[a[2]]),
              XorByte(Mul9[a[3]], Mul14[a[4]]))>>

InvMixColumns(s) ==
    InvMixColumn(SubSeq(s, 1, 4)) \o InvMixColumn(SubSeq(s, 5, 8))
        \o InvMixColumn(SubSeq(s, 9, 12)) \o InvMixColumn(SubSeq(s, 13, 16))

\* the cipher's loop over the rounds: st holds the round to do next and
\* the state; the last round, nr, has no MixColumns
RECURSIVE EncryptRounds(_, _, _)
EncryptRounds(st, w, nr) ==
    IF st.round = nr
    THEN AddRoundKey(ShiftRows(SubBytes(st.state)), w, nr)
    ELSE EncryptRounds(
             [round |-> st.round + 1,
              state |-> AddRoundKey(
                            MixColumns(ShiftRows(SubBytes(st.state))), w,
                            st.round)],
             w, nr)

\* the inverse cipher's loop over the rounds, from the highest down; the
\* last round, 0, has no InvMixColumns
RECURSIVE DecryptRounds(_, _)
DecryptRounds(st, w) ==
    IF st.round = 0
    THEN AddRoundKey(InvSubBytes(InvShiftRows(st.state)), w, 0)
    ELSE DecryptRounds(
             [round |-> st.round - 1,
              state |-> InvMixColumns(
                            AddRoundKey(InvSubBytes(InvShiftRows(st.state)),
                                        w, st.round))],
             w)

\* cipher.Block.Encrypt of aes.NewCipher(key): AES on one block, with 10,
\* 12 or 14 rounds for a key of 16, 24 or 32 bytes
BlockEncrypt(key, blk) ==
    LET w == ExpandKey(key)
    IN EncryptRounds([round |-> 1, state |-> AddRoundKey(blk, w, 0)], w,
                     Len(key) \div 4 + 6)

\* cipher.Block.Decrypt of aes.NewCipher(key): the inverse cipher
BlockDecrypt(key, blk) ==
    LET w == ExpandKey(key)
        nr == Len(key) \div 4 + 6
    IN DecryptRounds([round |-> nr - 1, state |-> AddRoundKey(blk, w, nr)],
                     w)

\* aes.NewCipher(key) returns a KeySizeError for a key that is not 16, 24
\* or 32 bytes long
NewCipherFails(key) == Len(key) \notin {16, 24, 32}

\* the n-th block of a byte string
BlockAt(text, n) ==
    SubSeq(text, (n - 1) * AESBlockSize + 1, n * AESBlockSize)

\* cipher.NewCBCEncrypter(block, iv).CryptBlocks: each block is xored with
\* the ciphertext block before it (the iv for the first) and encrypted
RECURSIVE CBCEncryptBlocks(_, _, _)
CBCEncryptBlocks(key, prev, text) ==
    IF text = <<>> THEN <<>>
    ELSE LET c == BlockEncrypt(key, XorBytes(BlockAt(text, 1), prev))
         IN c \o CBCEncryptBlocks(key, c,
                     SubSeq(text, AESBlockSize + 1, Len(text)))

\* cipher.NewCBCDecrypter(block, iv).CryptBlocks
RECURSIVE CBCDecryptBlocks(_, _, _)
CBCDecryptBlocks(key, prev, text) ==
    IF text = <<>> THEN <<>>
    ELSE LET c == BlockAt(text, 1)
         IN XorBytes(BlockDecrypt(key, c), prev) \o
            CBCDecryptBlocks(key, c,
                SubSeq(text, AESBlockSize + 1, Len(text)))

\* a byte string shifted right by one bit, the bit carry coming in at the
\* top
RECURSIVE ShiftRightWith(_, _)
ShiftRightWith(v, carry) ==
    IF v = <<>> THEN <<>>
    ELSE <<(v[1] \div 2) + 128 * carry>>
             \o ShiftRightWith(Tail(v), v[1] % 2)

ShiftRight(v) == ShiftRightWith(v, 0)

\* bit i of a block, bit 0 being the highest bit of the first byte
BitAt(x, i) == (x[(i \div 8) + 1] \div (2 ^ (7 - (i % 8)))) % 2

\* one step of the product of x and y in GCM's field GF(2^128): st holds
\* the bit of x reached, the multiple v of y for that bit, and the sum z
\* of the multiples for the bits of x that are set
GFMulStep(x, st) ==
    LET sh == ShiftRight(st.v)
    IN [bit |-> st.bit + 1,
        v |-> IF st.v[16] % 2 = 1
              THEN <<XorByte(sh[1], 225)>> \o Tail(sh)
              ELSE sh,
        z |-> IF BitAt(x, st.bit) = 1 THEN XorBytes(st.z, st.v) ELSE st.z]

\* the steps for the bits of x up to the bit stop, the last of a byte
RECURSIVE GFMulBits(_, _, _)
GFMulBits(x, st, stop) ==
    IF st.bit = stop THEN st
    ELSE GFMulBits(x, GFMulStep(x, st), stop)

\* the steps for the bytes of x, one byte after the other
RECURSIVE GFMulBytes(_, _)
GFMulBytes(x, st) ==
    IF st.bit = 128 THEN st.z
    ELSE GFMulBytes(x, GFMulBits(x, st, st.bit + 8))

GFMul(x, y) == GFMulBytes(x, [bit |-> 0, v |-> y, z |-> Bytes(16, 0)])

\* a byte string filled with zeros to whole blocks
Pad16(b) == b \o Bytes((16 - (Len(b) % 16)) % 16, 0)

\* a length in bits as 8 bytes, the highest first
BE64(n) ==
    <<0, 0, 0, 0, (n \div 16777216) % 256, (n \div 65536) % 256,
      (n \div 256) % 256, n % 256>>

\* GHASH of the blocks of data under the hash key h, from the value y
RECURSIVE GHashBlocks(_, _, _)
GHashBlocks(h, y, data) ==
    IF data = <<>> THEN y
    ELSE GHashBlocks(h, GFMul(XorBytes(y, SubSeq(data, 1, 16)), h),
                     SubSeq(data, 17, Len(data)))

\* GHASH over the associated data, the ciphertext and their lengths
GHash(h, ad, text) ==
    GHashBlocks(h, Bytes(16, 0),
                Pad16(ad) \o Pad16(text) \o BE64(8 * Len(ad))
                    \o BE64(8 * Len(text)))

\* the last four bytes of a counter block, as a number, plus one
RECURSIVE IncAt(_, _)
IncAt(c, i) ==
    IF i < 13 THEN c
    ELSE IF c[i] < 255 THEN [c EXCEPT ![i] = c[i] + 1]
    ELSE IncAt([c EXCEPT ![i] = 0], i - 1)

Inc32(c) == IncAt(c, 16)

\* the first counter block of a 12-byte nonce
J0(nonce) == nonce \o <<0, 0, 0, 1>>

\* the encrypted counter blocks after ctr that cover n bytes
RECURSIVE GCMCounterBlocks(_, _, _)
GCMCounterBlocks(key, ctr, n) ==
    IF n <= 0 THEN <<>>
    ELSE BlockEncrypt(key, Inc32(ctr))
             \o GCMCounterBlocks(key, Inc32(ctr), n - 16)

\* the key stream of GCM's counter mode
GCMKeyStream(key, nonce, n) ==
    SubSeq(GCMCounterBlocks(key, J0(nonce), n), 1, n)

\* the 16-byte tag of GCM over the associated data and the ciphertext
GCMTag(key, nonce, ad, text) ==
    XorBytes(GHash(BlockEncrypt(key, Bytes(16, 0)), ad, text),
             BlockEncrypt(key, J0(nonce)))

\* cipher.AEAD.Seal(nil, nonce, plaintext, ad)
GCMSeal(key, nonce, plaintext, ad) ==
    LET text == XorBytes(plaintext, GCMKeyStream(key, nonce, Len(plaintext)))
    IN text \o GCMTag(key, nonce, ad, text)

\* cipher.AEAD.Open(nil, nonce, ciphertext, ad)
GCMOpen(key, nonce, ciphertext, ad) ==
    IF Len(ciphertext) < GCMTagSize THEN Ret(<<>>, "errOpen")
    ELSE LET n == Len(ciphertext) - GCMTagSize
             text == SubSeq(ciphertext, 1, n)
             tag == SubSeq(ciphertext, n + 1, Len(ciphertext))
         IN IF tag # GCMTag(key, nonce, ad, text) THEN Ret(<<>>, "errOpen")
            ELSE Ret(XorBytes(text, GCMKeyStream(key, nonce, n)), "nil")

\* cipherUnpadTextPKCS7(buf): buf without as many bytes as its last byte
\* says; indexing an empty buf and slicing below zero panic
cipherUnpadTextPKCS7(buf) ==
    IF buf = <<>> THEN Ret(<<>>, "panic")
    ELSE LET padding == buf[Len(buf)]
         IN IF padding > Len(buf) THEN Ret(<<>>, "panic")
            ELSE Ret(SubSeq(buf, 1, Len(buf) - padding), "nil")

\* padding that adds nothing to whole blocks (not the code's behaviour)
cipherPadTextPKCS7_NoFullBlock(buf, bs) ==
    IF bs = 0 THEN Ret(<<>>, "panic")
    ELSE LET padding == (bs - (Len(buf) % bs)) % bs
         IN Ret(buf \o Bytes(padding, padding % 256), "nil")

\* cipherPadTextPKCS7(buf, bs): bs - len(buf)%bs bytes are appended, each
\* holding that number as a byte; the modulo by 0 panics
cipherPadTextPKCS7(buf, bs) ==
    IF bs = 0 THEN Ret(<<>>, "panic")
    ELSE LET padding == bs - (Len(buf) % bs)
         IN Ret(buf \o Bytes(padding, padding % 256), "nil")

\* dataCipherAES.encrypt: a key of another size than the cipher's and a key
\* aes.NewCipher does not take are errors; CBC encrypts the plaintext as it
\* is and panics when the iv is not one block long or the plaintext is not
\* whole blocks; GCM seals it and panics when the iv is not 12 bytes long
encrypt(a, key, iv, plaintext, ad) ==
    IF Len(key) # a.ksb THEN Ret(<<>>, "errInvalidKeySize")
    ELSE IF NewCipherFails(key) THEN Ret(<<>>, "KeySizeError")
    ELSE IF a.mode = "cbc"
    THEN IF \/ Len(iv.bytes) # AESBlockSize
            \/ Len(plaintext) % AESBlockSize # 0
         THEN Ret(<<>>, "panic")
         ELSE Ret(CBCEncryptBlocks(key, iv.bytes, plaintext), "nil")
    ELSE IF a.mode = "gcm"
    THEN IF Len(iv.bytes) # GCMNonceSize THEN Ret(<<>>, "panic")
         ELSE Ret(GCMSeal(key, iv.bytes, plaintext, ad), "nil")
    ELSE Ret(<<>>, "errUnsupportedMode")

\* dataCipherAES.decrypt: CBC takes iv[:16], which panics when the capacity
\* of iv is below 16 and else holds the first 16 bytes of its backing
\* array, decrypts, strips the padding and checks the length taken off; GCM
\* opens
decrypt(a, key, iv, ciphertext, ad) ==
    IF Len(key) # a.ksb THEN Ret(<<>>, "errInvalidKeySize")
    ELSE IF NewCipherFails(key) THEN Ret(<<>>, "KeySizeError")
    ELSE IF a.mode = "cbc"
    THEN LET i == SliceTo(iv, AESBlockSize)
         IN IF i.err = "panic" \/ Len(ciphertext) % AESBlockSize # 0
            THEN Ret(<<>>, "panic")
            ELSE LET unpadded == cipherUnpadTextPKCS7(
                                     CBCDecryptBlocks(key, i.out, ciphertext))
                     padLen == Len(ciphertext) - Len(unpadded.out)
                 IN IF unpadded.err = "panic" THEN unpadded
                    ELSE IF \/ padLen > AESBlockSize
                            \/ padLen > Len(unpadded.out)
                         THEN Ret(<<>>, "errPadding")
                         ELSE Ret(unpadded.out, "nil")
    ELSE IF a.mode = "gcm"
    THEN IF Len(iv.bytes) # GCMNonceSize THEN Ret(<<>>, "panic")
         ELSE GCMOpen(key, iv.bytes, ciphertext, ad)
    ELSE Ret(<<>>, "errUnsupportedMode")

\* the caller encrypts the plaintext
Encrypt ==
    /\ ciPc = "start"
    /\ ciCipher.mode # "none"
    /\ ciEnc' = encrypt(ciCipher, ciArgs.key, ciArgs.iv, ciArgs.plaintext,
                        ciArgs.ad)
    /\ ciPc' = "encrypted"
    /\ UNCHANGED <<ciCipher, ciArgs, ciDec, NotCipher>>

\* the caller decrypts what encrypt returned, with the same key, iv and ad
Decrypt ==
    /\ ciPc = "encrypted"
    /\ ciEnc.err = "nil"
    /\ ciDec' = decrypt(ciCipher, ciArgs.key, ciArgs.iv, ciEnc.out,
                        ciArgs.ad)
    /\ ciPc' = "decrypted"
    /\ UNCHANGED <<ciCipher, ciArgs, ciEnc, NotCipher>>

\* the caller decrypts bytes no encrypt of its own returned, as those of a
\* packet it received are: the bytes of ciArgs.plaintext, with the key, iv
\* and ad
DecryptReceived ==
    /\ ciPc = "start"
    /\ ciCipher.mode # "none"
    /\ ciDec' = decrypt(ciCipher, ciArgs.key, ciArgs.iv, ciArgs.plaintext,
                        ciArgs.ad)
    /\ ciPc' = "received"
    /\ UNCHANGED <<ciCipher, ciArgs, ciEnc, NotCipher>>

CipherNext == Encrypt \/ Decrypt \/ DecryptReceived



(***************************************************************************)
(* PKCS#7 padding: calls of cipherPadTextPKCS7 and cipherUnpadTextPKCS7    *)
(***************************************************************************)

\* padded := cipherPadTextPKCS7(b, bs)
Pad ==
    /\ padPc = "start"
    /\ padBs > 0
    /\ padRet' = cipherPadTextPKCS7(padB, padBs)
    /\ padPc' = "padded"
    /\ UNCHANGED <<padB, padBs, unpadRet, NotPad>>

\* cipherUnpadTextPKCS7(padded)
Unpad ==
    /\ padPc = "padded"
    /\ padRet.err = "nil"
    /\ unpadRet' = cipherUnpadTextPKCS7(padRet.out)
    /\ padPc' = "unpadded"
    /\ UNCHANGED <<padB, padBs, padRet, NotPad>>

\* cipherUnpadTextPKCS7(b) on a byte string that was not padded by
\* cipherPadTextPKCS7, as decrypt does with whatever it decrypted
UnpadInput ==
    /\ padPc = "start"
    /\ padBs > 0
    /\ unpadRet' = cipherUnpadTextPKCS7(padB)
    /\ padPc' = "stripped"
    /\ UNCHANGED <<padB, padBs, padRet, NotPad>>

PadNext == Pad \/ Unpad \/ UnpadInput


(***************************************************************************)
(* Option strings on the control channel: a 2-byte big-endian length that *)
(* counts the trailing NUL, the string, the NUL.                          *)
(***************************************************************************)

\* binary.BigEndian.PutUint16 of uint16(n)
PutUint16(n) == <<(n % 65536) \div 256, n % 256>>

\* encoding with no limit on the length (not the code's behaviour)
encodeOptionStringToBytes_NoLimit(str) ==
    Ret(PutUint16(Len(str) + 1) \o str \o <<0>>, "nil")

\* encodeOptionStringToBytes(s)
encodeOptionStringToBytes(str) ==
    IF Len(str) >= MaxUint16 THEN Ret(<<>>, "errEncodeOption")
    ELSE Ret(PutUint16(Len(str) + 1) \o str \o <<0>>, "nil")

\* decodeOptionStringFromBytes(b)
decodeOptionStringFromBytes(b) ==
    IF Len(b) < 3 THEN Ret(<<>>, "errDecodeOption")
    ELSE LET length == Uint16(SubSeq(b, 1, 2))
             rest == SubSeq(b, 3, Len(b))
         IN IF Len(rest) # length THEN Ret(<<>>, "errDecodeOption")
            ELSE IF rest[Len(rest)] # 0 THEN Ret(<<>>, "errDecodeOption")
            ELSE Ret(SubSeq(rest, 1, Len(rest) - 1), "nil")

\* encodeOptionStringToBytes(optIn)
EncodeOption ==
    /\ optPc = "start"
    /\ optEnc' = encodeOptionStringToBytes(optIn)
    /\ optPc' = "encoded"
    /\ UNCHANGED <<optIn, optDec, NotOpt>>

\* decodeOptionStringFromBytes of what the encoding returned
DecodeOption ==
    /\ optPc = "encoded"
    /\ optEnc.err = "nil"
    /\ optDec' = decodeOptionStringFromBytes(optEnc.out)
    /\ optPc' = "decoded"
    /\ UNCHANGED <<optIn, optEnc, NotOpt>>

\* decodeOptionStringFromBytes(optIn), the bytes having come from the peer
DecodeInput ==
    /\ optPc = "start"
    /\ optDec' = decodeOptionStringFromBytes(optIn)
    /\ optPc' = "parsed"
    /\ UNCHANGED <<optIn, optEnc, NotOpt>>

OptNext == EncodeOption \/ DecodeOption \/ DecodeInput


(***************************************************************************)
(* newDataCipherFromCipherSuite and newDataCipher                          *)
(***************************************************************************)

\* the one cipher name newDataCipher knows
cipherNameAES == "aes"

\* newDataCipher(name, bits, mode)
newDataCipher(name, bits, mode) ==
    IF bits % 8 # 0 \/ bits > 512 \/ bits < 64
    THEN [ksb |-> 0, mode |-> "none", err |-> "errInvalidKeySize"]
    ELSE IF name # cipherNameAES
    THEN [ksb |-> 0, mode |-> "none", err |-> "errUnsupportedCipher"]
    ELSE IF mode \notin {"cbc", "gcm"}
    THEN [ksb |-> 0, mode |-> "none", err |-> "errUnsupportedMode"]
    ELSE [ksb |-> bits \div 8, mode |-> mode, err |-> "nil"]

\* newDataCipherFromCipherSuite(c): the switch on the suite string
newDataCipherFromCipherSuite(c) ==
    CASE c = "AES-128-CBC" -> newDataCipher(cipherNameAES, 128, "cbc")
      [] c = "AES-192-CBC" -> newDataCipher(cipherNameAES, 192, "cbc")
      [] c = "AES-256-CBC" -> newDataCipher(cipherNameAES, 256, "cbc")
      [] c = "AES-128-GCM" -> newDataCipher(cipherNameAES, 128, "gcm")
      [] c = "AES-256-GCM" -> newDataCipher(cipherNameAES, 256, "gcm")
      [] OTHER -> [ksb |-> 0, mode |-> "none",
                   err |-> "errUnsupportedCipher"]

\* a call of newDataCipherFromCipherSuite(suiteName)
NewDataCipherFromCipherSuite ==
    /\ suitePc = "start"
    /\ suiteName # ""
    /\ suiteRet' = newDataCipherFromCipherSuite(suiteName)
    /\ suitePc' = "called"
    /\ UNCHANGED <<suiteParts, suiteName, NotSuite>>

SuiteNext == NewDataCipherFromCipherSuite

(***************************************************************************)
(* Manager.InitTunnelInfo: the tunnel MTU from the remote options.         *)
(* A string is the sequence of its pieces: a comma, a space, a digit, a    *)
(* sign, a letter or a whole word.                                         *)
(***************************************************************************)
OptTokens == {",", " ", "tun-mtu", "foo", "1", "5", "a", "-"}

\* the remote options a server can send
RemoteOptStrings == ByteStrings(MaxRemoteOptLen, OptTokens)

\* strings.Split(s, sep): the pieces of s between the separators; a string
\* without separator is its only piece, the empty string too
RECURSIVE Split(_, _)
Split(s, sep) ==
    IF \E i \in DOMAIN s : s[i] = sep
    THEN LET i == CHOOSE k \in DOMAIN s :
                      s[k] = sep /\ \A j \in 1..(k - 1) : s[j] # sep
         IN <<SubSeq(s, 1, i - 1)>> \o Split(SubSeq(s, i + 1, Len(s)), sep)
    ELSE <<s>>

DigitValue == [d \in {"1", "5"} |-> IF d = "1" THEN 1 ELSE 5]

\* the number a string of digits stands for
RECURSIVE DecimalValue(_)
DecimalValue(d) ==
    IF d = <<>> THEN 0
    ELSE 10 * DecimalValue(SubSeq(d, 1, Len(d) - 1)) + DigitValue[d[Len(d)]]

\* strconv.Atoi: an optional sign, then one digit or more and nothing else
Atoi(w) ==
    LET signed == w # <<>> /\ w[1] \in {"-", "+"}
        d == IF signed THEN Tail(w) ELSE w
    IN IF d = <<>> \/ \E i \in DOMAIN d : d[i] \notin DOMAIN DigitValue
       THEN [n |-> 0, err |-> "ErrSyntax"]
       ELSE [n |-> IF signed /\ w[1] = "-" THEN 0 - DecimalValue(d)
                   ELSE DecimalValue(d),
             err |-> "nil"]

\* the loop of newTunnelInfoFromRemoteOptionsString over the options, t
\* being the TunnelInfo built so far
RECURSIVE parseRemoteOpts(_, _)
parseRemoteOpts(opts, t) ==
    IF opts = <<>> THEN [ti |-> t, err |-> "nil"]
    ELSE LET vals == Split(Head(opts), " ")
         IN IF Len(vals) < 2 THEN parseRemoteOpts(Tail(opts), t)
            ELSE IF vals[1] = <<"tun-mtu">>
            THEN LET mtu == Atoi(vals[2])
                 IN IF mtu.err # "nil"
                    THEN [ti |-> ZeroTunnelInfo, err |-> mtu.err]
                    ELSE parseRemoteOpts(Tail(opts), [t EXCEPT !.MTU = mtu.n])
            ELSE parseRemoteOpts(Tail(opts), t)

\* newTunnelInfoFromRemoteOptionsString: a new TunnelInfo with the MTU of
\* the tun-mtu option, or an error
newTunnelInfoFromRemoteOptionsString(remoteOpts) ==
    parseRemoteOpts(Split(remoteOpts, ","), ZeroTunnelInfo)

\* the tasks that call InitTunnelInfo and UpdateTunnelInfo, as holders of
\* the Manager's mutex
InitTunnelTask == NumTasks + 2

UpdateTunnelTask == NumTasks + 3

\* a task has read the remote options and calls InitTunnelInfo with them
CallInitTunnelInfo ==
    /\ tiPc = "idle"
    /\ \E remoteOption \in RemoteOptStrings : tiIn' = remoteOption
    /\ tiPc' = "called"
    /\ tiErr' = "none"
    /\ UNCHANGED <<tunnelInfo, tuPc, NotTun>>

\* Manager.InitTunnelInfo: m.mu.Lock(), which waits for the mutex
InitTunnelInfoLock ==
    /\ tiPc = "called"
    /\ mu = 0
    /\ mu' = InitTunnelTask
    /\ tiPc' = "locked"
    /\ UNCHANGED <<tunnelInfo, tiIn, tiErr, tuPc, NotTunButMu>>

\* Manager.InitTunnelInfo under the mutex: on an error return it, else
\* m.tunnelInfo = *ti; the deferred m.mu.Unlock() runs on both returns
InitTunnelInfo ==
    /\ tiPc = "locked"
    /\ LET r == newTunnelInfoFromRemoteOptionsString(tiIn)
       IN IF r.err # "nil"
          THEN /\ tiErr' = r.err
               /\ UNCHANGED tunnelInfo
          ELSE /\ tunnelInfo' = r.ti
               /\ tiErr' = "nil"
    /\ mu' = 0
    /\ tiPc' = "idle"
    /\ tiIn' = <<>>
    /\ UNCHANGED <<tuPc, NotTunButMu>>

\* what the push reply can carry
PushedInfos ==
    {[GW |-> "10.8.0.1", IP |-> "10.8.0.2", MTU |-> 0,
      NetMask |-> "255.255.255.0", PeerID |-> 1]}

\* Manager.UpdateTunnelInfo: m.mu.Lock(), which waits for the mutex
UpdateTunnelInfoLock ==
    /\ tuPc = "idle"
    /\ mu = 0
    /\ mu' = UpdateTunnelTask
    /\ tuPc' = "locked"
    /\ UNCHANGED <<tunnelInfo, tiIn, tiPc, tiErr, NotTunButMu>>

\* Manager.UpdateTunnelInfo under the mutex: IP, GW, PeerID and NetMask
\* from the push reply, and the deferred m.mu.Unlock()
UpdateTunnelInfo ==
    /\ tuPc = "locked"
    /\ \E ti \in PushedInfos :
          tunnelInfo' = [tunnelInfo EXCEPT !.IP = ti.IP, !.GW = ti.GW,
                                           !.PeerID = ti.PeerID,
                                           !.NetMask = ti.NetMask]
    /\ mu' = 0
    /\ tuPc' = "idle"
    /\ UNCHANGED <<tiIn, tiPc, tiErr, NotTunButMu>>

TunNext ==
    \/ CallInitTunnelInfo
    \/ InitTunnelInfoLock
    \/ InitTunnelInfo
    \/ UpdateTunnelInfoLock
    \/ UpdateTunnelInfo

(***************************************************************************)
(* readPacket: one packet from a conn, by the conn's network.              *)
(***************************************************************************)
\* readPacketFromUDP: one conn.Read into a buffer of enough bytes; the
\* datagram the conn holds, or the error of Read when it holds none
readPacketFromUDP(conn) ==
    IF conn.bytes = <<>>
    THEN Ret(<<>>, conn.end)
    ELSE Ret(SubSeq(conn.bytes, 1, IF Len(conn.bytes) < enough
                                   THEN Len(conn.bytes) ELSE enough), "nil")

\* readPacket(conn) on a conn whose network is network: the switch on the
\* name of the network
readPacketFromConn(network, conn) ==
    CASE network \in {"tcp", "tcp4", "tcp6"} ->
             LET r == readPacketFromTCP(conn) IN Ret(r.buf, r.err)
      [] network \in {"udp", "udp4", "upd6"} -> readPacketFromUDP(conn)
      [] OTHER -> Ret(<<>>, "ErrBadConnNetwork")

\* a call of readPacket(conn)
ReadPacketFromConn ==
    /\ rpPc = "start"
    /\ rpNetwork # ""
    /\ rpRet' = readPacketFromConn(rpNetwork, rpConn)
    /\ rpPc' = "called"
    /\ UNCHANGED <<rpNetwork, rpConn, NotNet>>

NetNext == ReadPacketFromConn

(***************************************************************************)
(* splitPreMasterSecret: the two halves of a secret for the PRF.           *)
(***************************************************************************)
\* the second half taken from where the first ends
splitPreMasterSecret_Disjoint(secret) ==
    [s1 |-> SubSeq(secret, 1, (Len(secret) + 1) \div 2),
     s2 |-> SubSeq(secret, (Len(secret) + 1) \div 2 + 1, Len(secret))]

\* s1 = secret[0 : (len(secret)+1)/2]; s2 = secret[len(secret)/2:]
splitPreMasterSecret(secret) ==
    [s1 |-> SubSeq(secret, 1, (Len(secret) + 1) \div 2),
     s2 |-> SubSeq(secret, Len(secret) \div 2 + 1, Len(secret))]

\* prf10: s1, s2 := splitPreMasterSecret(secret)
SplitPreMasterSecret ==
    /\ pmsPc = "start"
    /\ LET r == splitPreMasterSecret(pmsSecret)
       IN /\ pmsS1' = r.s1
          /\ pmsS2' = r.s2
    /\ pmsPc' = "called"
    /\ UNCHANGED <<pmsSecret, NotPms>>

PmsNext == SplitPreMasterSecret


\* tasks requesting packets and packet ids concurrently
MgrNext ==
    \E t \in Tasks :
        \/ CallNewPacket(t)
        \/ CallLocalDataPacketID(t)
        \/ CallNewHardResetPacket(t)
        \/ Lock(t)
        \/ ReadPacketID(t)
        \/ IncrPacketID(t)
        \/ NewHardResetPacket(t)
        \/ Unlock(t)

SpecMgr == MgrInit /\ [][MgrNext]_vars

\* tasks driving the negotiation state and the remote session id
NegNext ==
    \E t \in Tasks :
        \/ CallSetNegotiationState(t)
        \/ CallSetRemoteSessionID(t)
        \/ Lock(t)
        \/ SetNegotiationState(t)
        \/ ReadyReceived(t)
        \/ SetRemoteSessionID(t)
        \/ Unlock(t)

SpecNeg == NewManager(FreshBase) /\ [][NegNext]_vars

\* TLSConn.Read called again and again while the peer sends what it likes
SpecTLS == NewManager(FreshBase) /\ [][TLSNext]_vars

\* one muxer.Handshake over a carrier that loses packets
SpecMux == NewManager(FreshBase) /\ [][MuxNext]_vars

\* Handshake up to the end of Reset, the loop of handshake going on past
\* the bound of the counters
MuxLiveNext ==
    \/ MuxNext
    \/ ResetSendHardResetUncounted

\* one muxer.Handshake under a fair scheduler, which runs the goroutine of
\* handshake and the caller of Handshake whenever they can take a step; the
\* context and the network are free to do nothing
SpecMuxLive ==
    /\ NewManager(FreshBase)
    /\ [][MuxLiveNext]_vars
    /\ WF_vars(HandshakeGo)
    /\ WF_vars(HandshakeStart)
    /\ WF_vars(HandshakeCtxDone)
    /\ WF_vars(ResetSendHardReset)
    /\ WF_vars(ResetSendHardResetUncounted)
    /\ WF_vars(ResetSeesFailed)
    /\ WF_vars(ResetReadPacket)
    /\ WF_vars(ResetSendACK)

\* one muxer.Handshake from the hard reset to the push reply
SpecHandshake == NewManager(FreshBase) /\ [][HandshakeNext]_vars

\* calls of muxer.Read after the handshake
SpecRead == NewManager(FreshBase) /\ [][RdNext]_vars

\* control packets written by TLSConn.Write while the peer stays silent or
\* sends ACKs
SpecTx == NewManager(FreshBase) /\ [][TxNext]_vars

\* tasks calling Close on one closeOnceConn, one after the other and at
\* the same time
SpecClose == NewManager(FreshBase) /\ [][CloseNext]_vars

\* readPacketFromTCP called until it fails, on a stream of framed packets
TCPInit == NewManagerExcept("tcp") /\ TCPStream

SpecTCP == TCPInit /\ [][TCPNext]_vars

\* a dataCipherAES with a key, an iv, a plaintext and associated data
CipherInit == NewManagerExcept("cipher") /\ CipherDraw

\* one encrypt followed by one decrypt of its result
SpecCipher == CipherInit /\ [][CipherNext]_vars

\* a byte string and a block size for the padding functions
PadInit == NewManagerExcept("pad") /\ PadDraw

\* padding followed by unpadding, and unpadding of the byte string itself
SpecPad == PadInit /\ [][PadNext]_vars

\* an option string, or bytes to decode
OptInit == NewManagerExcept("opt") /\ OptDraw

\* encoding followed by decoding, and decoding of the bytes themselves
SpecOpt == OptInit /\ [][OptNext]_vars

\* a cipher suite string
SuiteInit == NewManagerExcept("suite") /\ SuiteDraw

\* one call of newDataCipherFromCipherSuite
SpecSuite == SuiteInit /\ [][SuiteNext]_vars

\* a Manager whose tunnel info is initialised and updated again and again
SpecTun == NewManager(FreshBase) /\ [][TunNext]_vars

\* a conn of some network with a packet to read
NetInit == NewManagerExcept("net") /\ NetDraw

SpecNet == NetInit /\ [][NetNext]_vars

\* a secret to split
PmsInit == NewManagerExcept("pms") /\ PmsDraw

SpecPms == PmsInit /\ [][PmsNext]_vars

\* the three data-channel workers between TUN, the muxer and the TLS layer
SpecDC == MgrInit /\ [][DCNext]_vars

\* the data-channel workers under a fair scheduler, which runs a goroutine
\* that can take a step; the neighbours (TUN, the muxer, the receiver of
\* Ready) are free to do nothing
SpecDCLive ==
    /\ MgrInit
    /\ [][DCNext]_vars
    /\ WF_vars(DownRecvNewKey)
    /\ WF_vars(DownTakePayload)
    /\ WF_vars(DownWritePacket)
    /\ WF_vars(DownPushPacket)
    /\ WF_vars(DownDropPacket)
    /\ WF_vars(DownShutdown)
    /\ WF_vars(KeyRecv)
    /\ WF_vars(KeySetNegotiationState)
    /\ WF_vars(KeyShutdown)
    /\ WF_vars(UpRecv)
    /\ WF_vars(UpDeliver)
    /\ WF_vars(UpShutdown)

(***************************************************************************)
(* Properties of TLSConn.Read                                              *)
(***************************************************************************)
\* the payloads of the control packets 1 .. n, in order
RECURSIVE StreamUpTo(_)
StreamUpTo(n) == IF n = 0 THEN <<>> ELSE StreamUpTo(n - 1) \o PayloadOf(n)

\* C1: whatever the order of arrival, with duplicates and reorderings, the
\* bytes successive Read calls hand up are the payloads of packets 1, 2, 3,
\* ... in ascending id order, each once and with no gap.
C1_DeliveredInOrderOnce ==
    /\ Len(delivered) <= Len(StreamUpTo(MaxPacketID))
    /\ delivered = SubSeq(StreamUpTo(MaxPacketID), 1, Len(delivered))

\* every payload was handed up although packets arrived early and twice
C1_Witness ==
    /\ delivered = StreamUpTo(MaxPacketID)
    /\ aheadSeen >= 1
    /\ staleSeen >= 1

\* C2: a control packet whose id is below the next expected one is dropped
\* (it does not stay in ackQueue), is not delivered again, and is
\* acknowledged to the peer again.
C2_StaleDroppedAndReacked ==
    /\ staleAcked = staleSeen
    /\ \A i \in DOMAIN ackQueue :
          ~(/\ ackQueue[i].opcode = "P_CONTROL_V1"
            /\ 1 <= ackQueue[i].id
            /\ ackQueue[i].id <= lastACK)

(***************************************************************************)
(* Properties of tlsTransport.WritePacket                                  *)
(***************************************************************************)
\* C4: an outbound control packet the peer does not acknowledge is written
\* again after its timeout: once a retransmission timeout of a packet has
\* passed without an acknowledgment, the packet has been written at least
\* twice.
C4_UnackedRetransmitted ==
    \A id \in DOMAIN txWrites : txTimeouts[id] >= 1 => txWrites[id] >= 2

(***************************************************************************)
(* Properties of muxer.Reset                                               *)
(***************************************************************************)
\* C3: when the read of the server's reply fails or times out, the muxer
\* sends the hard reset again: while Reset waits for the reply it has sent
\* one hard reset more than it has seen reads fail (two lost copies make at
\* least three sends).
C3_ResendAfterReadFailure ==
    hpc = "resetRead" => hardResetSends >= resetReadFailures + 1

\* C5: once the remote session id holds a value, no later step changes it,
\* whether a repeated Reset or anything else.
C5_RemoteSessionIDSetOnce ==
    [][RemoteSessionID # 0 => RemoteSessionID' = RemoteSessionID]_vars

(***************************************************************************)
(* Properties of muxer.Handshake                                           *)
(***************************************************************************)
\* C14: when the server answers the push request with AUTH_FAILED, the
\* handshake stops with an error; it does not go on waiting for a push
\* reply.
C14_AuthFailedStopsHandshake ==
    pushErr = "errBadAuth" => hpc = "returned" /\ hsErr \notin {"none", "nil"}

\* C15: when the context is done before muxer.handshake has returned, be it
\* done already at the call, Handshake does not block once it is at its
\* select: its ctx.Done case can be taken, it returns the
\* context's error and leaves m.failed set; an error of handshake itself is
\* returned only once handshake has returned it.
C15_CtxDoneReturnsCtxErr ==
    /\ hsRet = "ctxErr" => failed /\ ctxDone
    /\ ctxDone /\ hsRet = "none" /\ hpc # "start" =>
          ENABLED (HandshakeCtxDone /\ hsRet' = "ctxErr" /\ failed')
    /\ hsRet \notin {"none", "ctxErr", "reliableErr"} => hsRet = hsErr

\* the context expired while the handshake was waiting for the push reply,
\* and Handshake returned the context's error
C15_Witness ==
    /\ hsRet = "ctxErr"
    /\ failed
    /\ hsErr = "none"
    /\ hpc = "readPushReply"

\* the events of a handshake, in the order of the protocol
HandshakeEvents ==
    <<"EventReset", "EventTLSHandshake", "EventTLSHandshakeDone",
      "EventDataInitDone">>

\* C21: the stages handshake passes to emit are Reset, TLSHandshake,
\* TLSHandshakeDone, DataInitDone in this order, each once: a successful
\* handshake has emitted all four; one that failed before or in the TLS
\* handshake has not emitted TLSHandshakeDone, and one that failed in the
\* data channel initialisation has not emitted DataInitDone.
C21_EventsInOrderOnce ==
    /\ Len(eventsEmitted) <= Len(HandshakeEvents)
    /\ eventsEmitted = SubSeq(HandshakeEvents, 1, Len(eventsEmitted))
    /\ hsErr = "nil" => eventsEmitted = HandshakeEvents
    /\ hsErr \in {"errBadInput", "ErrBadTLSInit"} => Len(eventsEmitted) = 1
    /\ hsErr = "ErrBadTLSHandshake" => Len(eventsEmitted) = 2
    /\ hsErr = "ErrBadDataHandshake" => Len(eventsEmitted) = 3
    /\ hpc \in {"start", "spawned", "resetSend", "resetRead", "resetACK", "tls",
                "tlsHandshake"} => Len(eventsEmitted) <= 2
    /\ hpc \in {"sendControlMessage", "readRemoteKey", "setupKeys",
                "sendPushRequest", "readPushReply"} => Len(eventsEmitted) = 3

\* a handshake that needed a second Reset succeeded, with its four events
C21_Witness ==
    /\ hpc = "returned"
    /\ hsErr = "nil"
    /\ resetAttempts >= 2
    /\ eventsEmitted = HandshakeEvents

\* the events handshake has emitted when it is at position pos
EmitsBefore(pos) ==
    CASE pos \in {"start", "spawned"} -> 0
      [] pos \in {"resetSend", "resetRead", "resetACK", "tls"} -> 1
      [] pos = "tlsHandshake" -> 2
      [] pos = "doneHandshake" -> 4
      [] OTHER -> 3

\* C20: emit never blocks the handshake: at every position from which the
\* next step emits an event, that step can be taken and leads to the next
\* position, whether the listener is nil, has no ready receiver or is
\* full; every event emitted was either delivered or dropped.
C20_EmitNeverBlocks ==
    /\ hpc = "spawned" => ENABLED (HandshakeStart /\ hpc' = "resetSend")
    /\ hpc = "tls" => ENABLED (HandshakeInitTLS /\ hpc' = "tlsHandshake")
    /\ hpc = "tlsHandshake" =>
          ENABLED (HandshakeTLSHandshake /\ hpc' = "sendControlMessage")
    /\ hpc = "readPushReply" /\ tlsReads < MaxTLSReads =>
          ENABLED (ReadPushReply /\ hpc' = "doneHandshake")
    /\ hpc # "returned" => eventsSent + eventsDropped = EmitsBefore(hpc)

\* the handshake got to its end with a buffered listener that took some
\* events and was full for others
C20_Witness ==
    /\ eventListener = "buffered"
    /\ eventsSent >= 1
    /\ eventsDropped >= 1
    /\ hpc = "doneHandshake"

(***************************************************************************)
(* Properties of muxer.Read                                                *)
(***************************************************************************)
\* C16: a single inbound packet that fails to parse or to decrypt is
\* skipped: muxer.Read does not return its error to the caller.
C16_BadPacketSkipped ==
    rdRet.err \notin {"errBadInput", "errCannotDecrypt"}

\* C17: a hard reset of the server read after the handshake makes the muxer
\* fail with UnexpectedReset: once Read has taken one, it has returned that
\* error.
C17_LateHardResetFails ==
    (\E i \in DOMAIN rdSeen : rdSeen[i] = "P_CONTROL_HARD_RESET_SERVER_V2") =>
        rdPc = "returned" /\ rdRet.err = "UnexpectedReset"

(***************************************************************************)
(* Properties of the data-channel workers                                  *)
(***************************************************************************)
\* C9: when encrypting a payload fails with ErrExpiredKey the tunnel is torn
\* down: shutdown is started, and moveDownWorker does not take another
\* payload from TUN.
C9_KeyExpiredTearsDown ==
    downErr = "ErrExpiredKey" => shutdown /\ downPc # "encrypt"

\* C11: no encryption and no decryption happens before a key was installed
\* by setupKeys: every step in which moveDownWorker calls writePacket or
\* moveUpWorker calls readPacket is taken with the key installed.
C11_NoCryptoBeforeKey ==
    [][(DownWritePacket \/ UpRecv) => keyInstalled]_vars

\* C12: once shutdown is raised, all three workers eventually exit and call
\* OnWorkerDone, whatever the neighbours do.
C12_WorkersExitOnShutdown ==
    shutdown ~> (workersDone = Workers)

\* C18: when moveUpWorker decrypts a packet that carries the keepalive, a
\* reply is handed to the muxer and the payload does not go to TUN.
C18_KeepaliveAnswered ==
    [][(UpRecv /\ keyInstalled /\ Head(muxerToData).kind = "ping") =>
          /\ Len(dataOrControlToMuxer') > Len(dataOrControlToMuxer)
          /\ upPc' # "toTUN"
          /\ dataToTUN' = dataToTUN]_vars

\* the encrypted packets moveDownWorker holds or has queued for the muxer,
\* oldest first
DownPackets ==
    dataOrControlToMuxer \o (IF downPc = "push" THEN <<downData>> ELSE <<>>)

\* C22: payloads are encrypted one at a time in the order TUN wrote them:
\* the n-th payload written gets the n-th data packet id, so the packets
\* queued for the muxer carry strictly increasing ids in the order of the
\* TUN writes, with gaps where packets were dropped; payloads not yet taken
\* are newer than every packet made.
C22_EncryptedInArrivalOrder ==
    /\ \A i \in DOMAIN DownPackets :
          /\ DownPackets[i].data >= 1
          /\ DownPackets[i].id = U32Add(pidBase.data, DownPackets[i].data - 1)
          /\ \A j \in DOMAIN DownPackets :
                i < j => /\ DownPackets[i].data < DownPackets[j].data
                         /\ U32Less(DownPackets[i].id, DownPackets[j].id)
          /\ \A k \in DOMAIN tunToData : DownPackets[i].data < tunToData[k]
    /\ \A k, l \in DOMAIN tunToData : k < l => tunToData[k] < tunToData[l]
    /\ \A i, j \in DOMAIN dataIssued :
          i < j => U32Less(dataIssued[i], dataIssued[j])

\* the queue for the muxer holds the second and the fourth packet: the
\* third was dropped on the full queue, the first has gone to the muxer
C22_Witness ==
    /\ pidBase = FreshBase
    /\ dropped = 1
    /\ dataOrControlToMuxer = <<[id |-> U32(0, 2), data |-> 2],
                                [id |-> U32(0, 4), data |-> 4]>>

\* C19: moveDownWorker never blocks on a full DataOrControlToMuxer: with a
\* packet in hand it always has a step, and when the queue is full that step
\* leaves the queue as it is and takes the worker back to its loop (the
\* packet is dropped) or out of it (shutdown).
C19_DownNeverBlocksOnFullQueue ==
    /\ downPc = "push" =>
          ENABLED (DownPushPacket \/ DownDropPacket \/ DownShutdown)
    /\ downPc = "push" /\ Len(dataOrControlToMuxer) >= ChanCap =>
          ENABLED (/\ DownDropPacket \/ DownShutdown
                   /\ downPc' \in {"loop", "done"}
                   /\ dataOrControlToMuxer' = dataOrControlToMuxer)

\* a packet was dropped on the full queue, and the worker has taken the next
\* payload while the queue is still full
C19_Witness ==
    /\ dropped >= 1
    /\ downPc = "encrypt"
    /\ Len(dataOrControlToMuxer) >= ChanCap
    /\ ~shutdown

(***************************************************************************)
(* Properties of session.Manager                                           *)
(***************************************************************************)
\* C6: the negotiation state only moves forward in INITIAL, PRE_START, START,
\* SENT_KEY, GOT_KEY, ACTIVE, GENERATED_KEYS, or to ERROR; a call that would
\* move it backwards never becomes the stored state.
C6_NegotiationMonotone ==
    [][negState' >= negState \/ negState' = S_ERROR]_vars

\* C13: no Manager method waits for another task while it holds the mutex:
\* a task inside SetNegotiationState that waits for a receiver on Ready does
\* not hold the mutex, so other calls can get it.
C13_NoWaitHoldingMutex ==
    \A t \in Tasks : mpc[t] = "sendReady" => mu # t

\* the tasks that have read a counter and not yet incremented it
PendingIncr(control) ==
    Cardinality({t \in Tasks : mpc[t] = "incr" /\ UsesControlCounter(t) = control})

\* C7: under any interleaving of concurrent NewPacket calls with control
\* opcodes, the control ids handed out are consecutive from the counter's
\* start, 1, 2, 3, ... for a new Manager: none twice, none skipped, none 0.
C7_ControlIDsConsecutive ==
    \A i \in 1 .. Len(ctrlIssued) :
        /\ ctrlIssued[i] = U32Add(pidBase.ctrl, i - 1)
        /\ ctrlIssued[i] # U32Zero
        /\ pidBase = FreshBase => ctrlIssued[i] = U32(0, i)

\* two tasks asked for control packets at once, one waiting for the mutex,
\* and ids 1 and 2 went out
C7_Witness ==
    /\ pidBase = FreshBase
    /\ Len(ctrlIssued) >= 2
    /\ \E t1, t2 \in Tasks :
          /\ t1 # t2
          /\ mu = t1 /\ UsesControlCounter(t1)
          /\ mpc[t2] = "lock" /\ UsesControlCounter(t2)

\* C8: a request made when a counter is at 2^32-1 returns ErrExpiredKey with
\* id 0 and leaves the counter there; no request made at 2^32-1 succeeds, and
\* the counters never wrap around below where they started.
C8_ExpiredKeySticky ==
    /\ ~U32Less(localDataPacketID, pidBase.data)
    /\ ~U32Less(localControlPacketID, pidBase.ctrl)
    /\ \A t \in Tasks :
          /\ mres[t].err = "ErrExpiredKey" =>
                /\ mres[t].seen = MaxUint32
                /\ mres[t].pid = U32Zero
                /\ UsesControlCounter(t) => localControlPacketID = MaxUint32
                /\ UsesDataCounter(t) => localDataPacketID = MaxUint32
          /\ mres[t].err = "nil" => mres[t].seen # MaxUint32
    /\ \A i \in 1 .. Len(dataIssued) : dataIssued[i] # MaxUint32
    /\ \A i \in 1 .. Len(ctrlIssued) : ctrlIssued[i] # MaxUint32

\* the data counter ran up to 2^32-1, and the second request in a row made
\* there returns ErrExpiredKey
C8_Witness ==
    /\ Len(dataIssued) = AgedGap
    /\ ctrlIssued = <<>> /\ hardResets = <<>>
    /\ ncalls = AgedGap + 2
    /\ \E t \in Tasks :
          /\ mres[t].err = "ErrExpiredKey"
          /\ UsesDataCounter(t)
          /\ \A u \in Tasks \ {t} : mpc[u] = "idle"

\* C10: every packet NewHardResetPacket returns has id 0, the calls leave
\* both counters where the packet-id requests put them, and the first
\* control packet of a new Manager gets id 1 however many hard resets came
\* before it.
C10_HardResetUncounted ==
    /\ \A i \in 1 .. Len(hardResets) : hardResets[i].id = U32Zero
    /\ localControlPacketID =
          U32Add(pidBase.ctrl, Len(ctrlIssued) - PendingIncr(TRUE))
    /\ localDataPacketID =
          U32Add(pidBase.data, Len(dataIssued) - PendingIncr(FALSE))
    /\ pidBase = FreshBase /\ ctrlIssued # <<>> => ctrlIssued[1] = U32One

\* two hard resets were made before the first control packet, which got id 1
C10_Witness ==
    /\ pidBase = FreshBase
    /\ Len(hardResets) >= 2
    /\ \A i \in 1 .. Len(hardResets) : hardResets[i].ctrlBefore = 0
    /\ ctrlIssued = <<U32One>>

\* C23: however many tasks call Close, and however often, the underlying
\* connection is closed at most once, and exactly once as soon as one call
\* has returned; one call only (the one that won the Once) ran the
\* underlying Close, no two tasks are inside it together, and every other
\* call returns nil without having touched the connection.
C23_CloseOnce ==
    /\ connCloses <= 1
    /\ Len(closeRets) >= 1 => connCloses = 1
    /\ \A i, j \in 1..Len(closeRets) :
           closeRets[i].ran /\ closeRets[j].ran => i = j
    /\ \A i \in 1..Len(closeRets) :
           ~closeRets[i].ran => closeRets[i].err = "nil"
    /\ \A t \in Tasks : cpc[t] \in {"f", "store"} =>
           \A u \in Tasks \ {t} : cpc[u] \notin {"f", "store"}

\* three calls have returned after a failing underlying Close: the one
\* that ran it, a later call of the same task and a call of another task
C23_Witness ==
    /\ Len(closeRets) >= 3
    /\ \E i, j, k \in 1..Len(closeRets) :
           /\ closeRets[i].ran
           /\ closeRets[i].err = "ErrClosed"
           /\ j # i /\ closeRets[j].task = closeRets[i].task
           /\ k # i /\ closeRets[k].task # closeRets[i].task

\* the bytes the frames of the first n written packets take on the stream
FramedLen(n) ==
    Len(Concat([i \in 1..n |-> SizeFrame(tcpWritten[i])]))

\* the written packets whose frames the stream carries whole
WholeFrames ==
    LET carried == FramedLen(Len(tcpWritten)) - tcpCut
    IN Cardinality({n \in 1..Len(tcpWritten) : FramedLen(n) <= carried})

\* C24: on a stream, readPacketFromTCP consumes one length prefix and one
\* payload per call: the packets it has returned are the first packets
\* framed onto the stream, in order, and what is left of the stream is what
\* follows their frames; it fails only when every whole frame has been read,
\* with io.EOF at a frame boundary and with an error too when the stream
\* ends inside a frame, and then it returns no packet.
C24_FramedPacketsReadBack ==
    /\ Len(tcpGot) <= WholeFrames
    /\ tcpGot = SubSeq(tcpWritten, 1, Len(tcpGot))
    /\ tcpErr = "nil" =>
           tcpConn = SubSeq(StreamOf(tcpWritten, tcpCut),
                            FramedLen(Len(tcpGot)) + 1,
                            FramedLen(Len(tcpWritten)) - tcpCut)
    /\ tcpErr # "nil" =>
           /\ Len(tcpGot) = WholeFrames
           /\ tcpConn = <<>>
           /\ tcpErr \in {"EOF", "ErrUnexpectedEOF"}
           /\ FramedLen(WholeFrames) = FramedLen(Len(tcpWritten)) - tcpCut
                  => tcpErr = "EOF"

\* a stream that ended inside the payload of its second frame gave the
\* first packet, a long one, and then an error
C24_Witness ==
    /\ Len(tcpWritten) = 2
    /\ tcpCut > 0
    /\ Len(tcpGot) = 1
    /\ Len(tcpGot[1]) > 256
    /\ tcpErr = "ErrUnexpectedEOF"

\* C25: for every plaintext, with a key of the cipher's size, a valid iv
\* and the same associated data, decrypt of what encrypt returned gives
\* back the plaintext and no error, in CBC and in GCM mode.
C25_DecryptInvertsEncrypt ==
    ciPc = "decrypted" =>
        ciDec.err = "nil" /\ ciDec.out = ciArgs.plaintext

\* C26: for every byte string b, the empty one included, and every block
\* size bs in 1..255, padding appends between 1 and bs bytes, each holding
\* their number, so that the length becomes a multiple of bs, and unpadding
\* the result gives b back.
C26_UnpadInvertsPad ==
    padBs \in 1..255 =>
        /\ padPc \in {"padded", "unpadded"} =>
               LET added == Len(padRet.out) - Len(padB)
               IN /\ padRet.err = "nil"
                  /\ added \in 1..padBs
                  /\ Len(padRet.out) % padBs = 0
                  /\ SubSeq(padRet.out, 1, Len(padB)) = padB
                  /\ \A i \in (Len(padB) + 1)..Len(padRet.out) :
                         padRet.out[i] = added
        /\ padPc = "unpadded" => unpadRet = Ret(padB, "nil")

\* a byte string of exactly one block was padded with a whole block more
\* and unpadded again
C26_Witness ==
    /\ padPc = "unpadded"
    /\ padBs = 2
    /\ Len(padB) = 2
    /\ Len(padRet.out) = 4
    /\ unpadRet.out = padB

\* C27: unpadding a malformed input (an empty buffer, a last byte equal to
\* 0, a last byte larger than the block size, or a block size above 255)
\* returns an error and no data.
C27_UnpadRejectsMalformed ==
    /\ padPc = "stripped"
    /\ \/ padB = <<>>
       \/ padB # <<>> /\ padB[Len(padB)] = 0
       \/ padB # <<>> /\ padB[Len(padB)] > padBs
       \/ padBs > 255
    => /\ unpadRet.err \notin {"nil", "panic"}
       /\ unpadRet.out = <<>>

\* C28: an option string shorter than 65535 bytes is encoded without
\* error and decoding the encoding returns the string; a longer one makes
\* the encoding fail with errEncodeOption; decoding fails with
\* errDecodeOption when the input has fewer than 3 bytes, when its length
\* prefix is not the number of bytes that follow, or when the last byte is
\* not NUL, and otherwise returns the string whose encoding the input is.
C28_OptionStringRoundTrip ==
    /\ optPc \in {"encoded", "decoded"} =>
           IF Len(optIn) < 65535
           THEN optEnc.err = "nil" /\ Len(optEnc.out) = Len(optIn) + 3
           ELSE optEnc = Ret(<<>>, "errEncodeOption")
    /\ optPc = "decoded" => optDec = Ret(optIn, "nil")
    /\ optPc = "parsed" =>
           IF \/ Len(optIn) < 3
              \/ optIn[1] * 256 + optIn[2] # Len(optIn) - 2
              \/ optIn[Len(optIn)] # 0
           THEN optDec = Ret(<<>>, "errDecodeOption")
           ELSE /\ optDec.err = "nil"
                /\ optDec.out = SubSeq(optIn, 3, Len(optIn) - 1)

\* the longest option string that can be encoded came back from decoding
C28_Witness ==
    /\ optPc = "decoded"
    /\ Len(optIn) = 65534
    /\ optEnc.out[1] = 255 /\ optEnc.out[2] = 255
    /\ optDec.out = optIn

\* C29: newDataCipherFromCipherSuite returns a cipher for each of the six
\* suites AES-128, AES-192 and AES-256 in CBC and in GCM mode, with the key
\* size and the mode the suite names, and errUnsupportedCipher for every
\* other name.
C29_SixSuitesSupported ==
    suitePc = "called" =>
        IF /\ suiteParts.alg = "AES"
           /\ suiteParts.bits \in {128, 192, 256}
           /\ suiteParts.mode \in {"CBC", "GCM"}
        THEN /\ suiteRet.err = "nil"
             /\ suiteRet.ksb * 8 = suiteParts.bits
             /\ suiteRet.mode = IF suiteParts.mode = "CBC" THEN "cbc"
                                                            ELSE "gcm"
        ELSE suiteRet = [ksb |-> 0, mode |-> "none",
                         err |-> "errUnsupportedCipher"]

\* C30: at every point every packet held in ackQueue is a control packet
\* whose id is at least the next expected one (no packet with an older id,
\* no empty placeholder of an inbound ACK), and Read is never stuck sending
\* to a full ackQueue.
C30_AckQueueOnlyPending ==
    /\ \A i \in DOMAIN ackQueue :
           /\ ackQueue[i] # EmptyPacket
           /\ ackQueue[i].id >= lastACK + 1
    /\ tpc # "blocked"

\* C31: when the packet with the next expected id is in ackQueue, Read
\* delivers it without a further packet from the carrier, whatever its place
\* in the queue: Read never goes on to read the carrier while the queue
\* holds the next packet.
C31_QueuedNextNeedsNoCarrier ==
    tpc = "conn" => \A i \in DOMAIN ackQueue : ~canRead(ackQueue[i])

\* C32: the payload of an in-order control packet goes into the read
\* buffer only in a step that has sent the ACK for that packet id; a Read
\* that returns because sending the ACK failed returns zero bytes and leaves
\* the read buffer, the bytes handed up and the last acknowledged id as
\* they were.
C32_PayloadOnlyAfterAck ==
    [][/\ Len(delivered') + Len(bufReader') > Len(delivered) + Len(bufReader)
          => /\ acksSent' = Append(acksSent, lastACK')
             /\ \A i \in (Len(delivered) + Len(bufReader) + 1)
                            ..(Len(delivered') + Len(bufReader')) :
                    (delivered' \o bufReader')[i][1] = lastACK'
       /\ tpc # "idle" /\ tpc' = "idle" /\ tret'.err = "ackError"
          => /\ tret'.n = 0
             /\ UNCHANGED <<bufReader, delivered, lastACK, acksSent>>
      ]_vars

\* a Read returned the ACK error after an earlier Read had handed up a
\* payload
C32_Witness ==
    /\ tpc = "idle"
    /\ tret.err = "ackError"
    /\ Len(delivered) > 0
    /\ Len(acksSent) > 0

\* C33: the negotiation state becomes S_GENERATED_KEYS only in the step
\* keyWorker takes after setupKeys succeeded for a key received on KeyReady;
\* the newKey signal is handed to moveDownWorker only after that; and when
\* setupKeys fails the state stays as it was, keyWorker goes back to
\* waiting and no signal is sent.
C33_GeneratedKeysAfterSetupKeys ==
    [][/\ negState' # negState
          => /\ negState' = S_GENERATED_KEYS
             /\ keyPc = "setNegotiationState"
             /\ keyInstalled
       /\ keyPc' = "setNegotiationState" /\ keyPc # "setNegotiationState"
          => /\ keyReady # <<>>
             /\ Head(keyReady) = "good"
             /\ keyInstalled'
       /\ keyPc' = "sendNewKey" => negState' = S_GENERATED_KEYS
       /\ downPc = "waitKey" /\ downPc' = "loop"
          => /\ keyPc = "sendNewKey"
             /\ negState = S_GENERATED_KEYS
             /\ keyInstalled
       /\ keyPc = "wait" /\ keyReady # <<>> /\ keyReady' = Tail(keyReady)
             /\ Head(keyReady) = "bad"
          => /\ keyPc' = "wait"
             /\ UNCHANGED <<negState, keyInstalled, downPc>>
      ]_vars

\* moveDownWorker has received the newKey signal after a key was set up
C33_Witness ==
    /\ downPc = "loop"
    /\ keyPc = "wait"
    /\ negState = S_GENERATED_KEYS
    /\ keyInstalled
    /\ keysPosted = 1

\* C34: a worker that returns has called OnWorkerDone and started the
\* shutdown, and once one worker has returned no other worker keeps
\* running: all three eventually return.
C34_NoWorkerRunsAlone ==
    /\ [](workersDone # {} => shutdown)
    /\ (workersDone # {}) ~> (workersDone = Workers)

(***************************************************************************)
(* Properties of the handshake task after Handshake returned               *)
(***************************************************************************)
\* the positions of handshake inside its loop around Reset
ResetLoopPositions == {"resetSend", "resetRead", "resetACK"}

\* C35: after Handshake has returned the error of its expired context, the
\* task running handshake comes to an end: from some point on it is no
\* longer in the loop that sends hard resets and reads from the carrier.
C35_TaskEndsAfterCtxExpiry ==
    (hsRet = "ctxErr") ~> [](hpc \notin ResetLoopPositions)

(***************************************************************************)
(* Properties of the reply accepted by muxer.Reset                         *)
(***************************************************************************)
\* C36: Reset stores a remote session id and goes on to send the ACK only
\* when ParseHardReset accepted the reply: when Reset takes a reply from the
\* carrier that ParseHardReset rejects, the remote session id stays as it
\* was and Reset does not reach its SendACK.
C36_UnparsedReplyNotAccepted ==
    [][(/\ hpc = "resetRead"
        /\ inbound # <<>>
        /\ inbound' = Tail(inbound)
        /\ ParseHardReset(Head(inbound)).err # "nil")
          => /\ RemoteSessionID' = RemoteSessionID
             /\ hpc' # "resetACK"]_vars

(***************************************************************************)
(* Properties of a failed TLS handshake                                    *)
(***************************************************************************)
\* C37: when tlsHandshakeFn fails, handshake returns ErrBadTLSHandshake at
\* once: it has emitted Reset and TLSHandshake and nothing else, it never
\* moves on to InitDataWithRemoteKey or emits another event afterwards, and
\* what Handshake hands to its caller from errch is that error.
C37_TLSFailureStopsHandshake ==
    /\ [](hsErr = "ErrBadTLSHandshake" =>
            /\ hpc = "returned"
            /\ eventsEmitted = <<"EventReset", "EventTLSHandshake">>
            /\ hsRet \in {"none", "ctxErr", "reliableErr", "ErrBadTLSHandshake"})
    /\ [][hsErr = "ErrBadTLSHandshake" =>
            /\ hpc' = "returned"
            /\ hsErr' = hsErr
            /\ eventsEmitted' = eventsEmitted]_vars

\* the TLS handshake failed and Handshake returned its error to the caller
C37_Witness ==
    /\ hpc = "returned"
    /\ hsErr = "ErrBadTLSHandshake"
    /\ hsRet = "ErrBadTLSHandshake"
    /\ eventsEmitted = <<"EventReset", "EventTLSHandshake">>

(***************************************************************************)
(* Properties of the tunnel info                                           *)
(***************************************************************************)
\* a word that reads as an integer: an optional sign and digits
IsInteger(w) ==
    LET d == IF w # <<>> /\ w[1] \in {"-", "+"} THEN Tail(w) ELSE w
    IN d # <<>> /\ \A i \in DOMAIN d : d[i] \in {"1", "5"}

\* the remote options hold an entry "tun-mtu <integer>": the word tun-mtu,
\* one space and an integer
HasTunMTUEntry(remoteOpts) ==
    \E i \in DOMAIN Split(remoteOpts, ",") :
        LET vals == Split(Split(remoteOpts, ",")[i], " ")
        IN Len(vals) >= 2 /\ vals[1] = <<"tun-mtu">> /\ IsInteger(vals[2])

\* C38: a call of InitTunnelInfo with remote options that hold no
\* well-formed "tun-mtu <integer>" entry (the empty string, a value that is
\* no integer, a second space before the value) leaves the stored MTU and the
\* other fields of the tunnel info as they were.
C38_MTUChangesOnlyOnTunMTUEntry ==
    [][tiPc = "locked" /\ tiPc' = "idle" /\ ~HasTunMTUEntry(tiIn)
          => tunnelInfo' = tunnelInfo]_vars

(***************************************************************************)
(* Properties of readPacket                                                *)
(***************************************************************************)
TCPNames == {"tcp", "tcp4", "tcp6"}

UDPNames == {"udp", "udp4", "udp6"}

\* C39: readPacket returns ErrBadConnNetwork exactly when the network of the
\* conn is neither a TCP name nor a UDP name; on a TCP name it returns the
\* packet behind the size frame, on a UDP name the whole datagram, and on
\* both the error of the conn's Read when the conn holds nothing.
C39_ReadPacketByNetwork ==
    rpPc = "called" =>
        /\ rpRet.err = "ErrBadConnNetwork"
              <=> rpNetwork \notin TCPNames \cup UDPNames
        /\ rpNetwork \in TCPNames =>
              rpRet = IF rpConn.bytes = <<>> THEN Ret(<<>>, rpConn.end)
                      ELSE Ret(SubSeq(rpConn.bytes, 3, Len(rpConn.bytes)), "nil")
        /\ rpNetwork \in UDPNames =>
              rpRet = IF rpConn.bytes = <<>> THEN Ret(<<>>, rpConn.end)
                      ELSE Ret(rpConn.bytes, "nil")

(***************************************************************************)
(* Properties of splitPreMasterSecret                                      *)
(***************************************************************************)
\* the first k bytes of secret are h
LeadingBytes(h, secret, k) ==
    Len(h) = k /\ \A i \in 1..k : h[i] = secret[i]

\* the last k bytes of secret are h
TrailingBytes(h, secret, k) ==
    Len(h) = k /\ \A i \in 1..k : h[i] = secret[Len(secret) - k + i]

\* C40 as stated: the first half is the leading ceil(n/2) bytes of the
\* secret and the second half its trailing floor(n/2) bytes.
C40_SecondHalfRoundedDown ==
    pmsPc = "called" =>
        /\ LeadingBytes(pmsS1, pmsSecret, (Len(pmsSecret) + 1) \div 2)
        /\ TrailingBytes(pmsS2, pmsSecret, Len(pmsSecret) \div 2)

\* C40, amended: the first half is the leading ceil(n/2) bytes of the
\* secret and the second half its trailing ceil(n/2) bytes; the halves of a
\* secret of odd length share its middle byte.
C40_BothHalvesRoundedUp ==
    pmsPc = "called" =>
        /\ LeadingBytes(pmsS1, pmsSecret, (Len(pmsSecret) + 1) \div 2)
        /\ TrailingBytes(pmsS2, pmsSecret, (Len(pmsSecret) + 1) \div 2)
        /\ Len(pmsSecret) % 2 = 1 => pmsS1[Len(pmsS1)] = pmsS2[1]

\* a secret of three different bytes was split, the middle one is in both
\* halves
C40_Witness ==
    /\ pmsPc = "called"
    /\ pmsSecret = <<0, 1, 2>>
    /\ pmsS1 = <<0, 1>>
    /\ pmsS2 = <<1, 2>>

=============================================================================
